---------------------------- MODULE Spec2Model ----------------------------
(***************************************************************************)
(* A model of src/app.py (MediAI Pro): the rule-based health score         *)
(* (HealthAnalytics.calculate_health_score), the BMI category              *)
(* (get_bmi_category) and the demo facility search                         *)
(* (MedicalFacilitiesService.search_facilities).                           *)
(*                                                                         *)
(* Numbers.  BMI is a rational [n, d] (d > 0) compared by cross            *)
(* multiplication, so 18.5, 25 and 30 are exact.  Temperatures are in      *)
(* tenths of a degree Fahrenheit (100.4 is 1004).  Distances are in metres *)
(* (base_distance 2.3 km is 2300, a radius is already in metres, the       *)
(* jitter of random.uniform(-0.3, 0.3) is an integer in -300..300).        *)
(*                                                                         *)
(* Python values.  A value that a comparison may meet is a record          *)
(* [kind, val]: kind "num" for a number, "none" for None (not comparable   *)
(* to a number: the comparison raises TypeError).  A dict is a function    *)
(* whose DOMAIN is the set of its keys.  A str is a sequence of one        *)
(* character strings, " " being whitespace.                                *)
(***************************************************************************)
EXTENDS Integers, Sequences, FiniteSets, TLC

VARIABLES
    args,        \* the arguments of the last (or the coming) call of
                 \* calculate_health_score
    result,      \* <<>> before any call, <<r>> once a call has returned r
    locals,      \* the try block's locals when the last call left it
    calls,       \* the number of calls of calculate_health_score so far
    session,     \* st.session_state (the keys main initialises)
    watched,     \* history: <<>> or <<[args, result]>> of an earlier call
    fargs,       \* the arguments of search_facilities
    fresult,     \* <<>> before any call, <<list>> once a search has returned
    flocals,     \* the try block's locals when the last search left it
    secrets,     \* st.secrets: <<>> when reading it raises, else <<dict>>
    environ,     \* os.environ, the names the lookup reads
    ai_service,  \* <<>> or <<the AIService main built in its last run>>
    page         \* what the last run of the script read and rendered

appVars == <<secrets, environ, ai_service, page>>

vars == <<args, result, locals, calls, session, watched, fargs, fresult,
          flocals, secrets, environ, ai_service, page>>

-----------------------------------------------------------------------------
(* Python values *)

Num(n) == [kind |-> "num", val |-> n]

PyNone == [kind |-> "none", val |-> 0]

IsNum(x) == x.kind = "num"

\* dict.get(key, default)
Get(d, key, default) == IF key \in DOMAIN d THEN d[key] ELSE Num(default)

\* a bmi given in tenths (220 is 22.0)
Tenths(t) == [n |-> t, d |-> 10]

\* bmi < t/10 and bmi > t/10 for a rational bmi
BmiLt(bmi, t) == bmi.n * 10 < t * bmi.d

BmiGt(bmi, t) == bmi.n * 10 > t * bmi.d

\* str: a sequence of characters
Str(cs) == [kind |-> "str", chars |-> cs]

\* a truthy object that is no str (it has no strip())
PyObj == [kind |-> "obj", chars |-> <<>>]

NoneStr == [kind |-> "none", chars |-> <<>>]

IsSpace(c) == c = " "

RECURSIVE LStrip(_)
LStrip(cs) ==
    IF cs # <<>> /\ IsSpace(Head(cs)) THEN LStrip(Tail(cs)) ELSE cs

RECURSIVE RStrip(_)
RStrip(cs) ==
    IF cs # <<>> /\ IsSpace(cs[Len(cs)])
    THEN RStrip(SubSeq(cs, 1, Len(cs) - 1))
    ELSE cs

\* str.strip()
Strip(cs) == RStrip(LStrip(cs))

Min(a, b) == IF a < b THEN a ELSE b

Max(a, b) == IF a > b THEN a ELSE b

-----------------------------------------------------------------------------
(* HealthAnalytics.calculate_health_score, src/app.py 466-570 *)

\* score = 100; risk_factors = []; recommendations = []
\* deductions logs every executed `score -= k` with the assessment it is in
ScoreStart ==
    [score |-> 100, risk_factors |-> <<>>, recommendations |-> <<>>,
     deductions |-> <<>>, raised |-> FALSE]

\* an exception leaves the try block with the locals as they are
Raise(st) == [st EXCEPT !.raised = TRUE]

\* score -= k; risk_factors.append(risk); recommendations.append(rec)
Penalise(st, section, k, risk, rec) ==
    [st EXCEPT !.score = @ - k,
               !.risk_factors = Append(@, risk),
               !.recommendations = Append(@, rec),
               !.deductions = Append(@, [section |-> section, amount |-> k])]

\* score -= k; recommendations.append(rec)
Adjust(st, section, k, rec) ==
    [st EXCEPT !.score = @ - k,
               !.recommendations = Append(@, rec),
               !.deductions = Append(@, [section |-> section, amount |-> k])]

BmiAssessmentIfElse(st, bmi) ==
    LET a == IF BmiLt(bmi, 185)
             THEN Penalise(st, "bmi", 15, "Underweight",
                           "Consider nutritional counseling")
             ELSE st
    IN  IF BmiGt(bmi, 300)
        THEN Penalise(a, "bmi", 20, "Obesity",
                      "Weight management program recommended")
        ELSE IF ~BmiGt(bmi, 250) /\ ~BmiLt(bmi, 185)
        THEN a
        ELSE Penalise(a, "bmi", 10, "Overweight",
                      "Lifestyle modifications suggested")

\* lines 472-484
BmiAssessment(st, bmi) ==
    IF BmiLt(bmi, 185)
    THEN Penalise(st, "bmi", 15, "Underweight",
                  "Consider nutritional counseling")
    ELSE IF BmiGt(bmi, 300)
    THEN Penalise(st, "bmi", 20, "Obesity",
                  "Weight management program recommended")
    ELSE IF BmiGt(bmi, 250)
    THEN Penalise(st, "bmi", 10, "Overweight",
                  "Lifestyle modifications suggested")
    ELSE st

HighBloodPressure(st) ==
    Penalise(st, "bp", 25, "High Blood Pressure",
             "Blood pressure monitoring needed")

ElevatedBloodPressure(st) ==
    Penalise(st, "bp", 15, "Elevated Blood Pressure",
             "Lifestyle changes recommended")

BloodPressureAssessmentSysOnly(st, vitals) ==
    LET bp_sys == Get(vitals, "bp_systolic", 120)
    IN  IF ~IsNum(bp_sys) THEN Raise(st)
        ELSE IF bp_sys.val > 140 THEN HighBloodPressure(st)
        ELSE IF bp_sys.val > 130 THEN ElevatedBloodPressure(st)
        ELSE st

\* the second test as an if of its own
BloodPressureAssessmentTwoIfs(st, vitals) ==
    LET bp_sys == Get(vitals, "bp_systolic", 120)
        bp_dia == Get(vitals, "bp_diastolic", 80)
    IN  IF ~IsNum(bp_sys) THEN Raise(st)
        ELSE IF bp_sys.val > 140
        THEN ElevatedBloodPressure(HighBloodPressure(st))
        ELSE IF ~IsNum(bp_dia) THEN Raise(st)
        ELSE IF bp_dia.val > 90
        THEN ElevatedBloodPressure(HighBloodPressure(st))
        ELSE IF bp_sys.val > 130 \/ bp_dia.val > 85
        THEN ElevatedBloodPressure(st)
        ELSE st

\* lines 486-497; `a or b` evaluates b only when a is false
BloodPressureAssessment(st, vitals) ==
    LET bp_sys == Get(vitals, "bp_systolic", 120)
        bp_dia == Get(vitals, "bp_diastolic", 80)
    IN  IF ~IsNum(bp_sys) THEN Raise(st)
        ELSE IF bp_sys.val > 140 THEN HighBloodPressure(st)
        ELSE IF ~IsNum(bp_dia) THEN Raise(st)
        ELSE IF bp_dia.val > 90 THEN HighBloodPressure(st)
        ELSE IF bp_sys.val > 130 \/ bp_dia.val > 85
        THEN ElevatedBloodPressure(st)
        ELSE st

\* lines 499-508
HeartRateAssessment(st, vitals) ==
    LET pulse == Get(vitals, "pulse", 75)
    IN  IF ~IsNum(pulse) THEN Raise(st)
        ELSE IF pulse.val > 100
        THEN Penalise(st, "pulse", 15, "Tachycardia",
                      "Cardiac evaluation suggested")
        ELSE IF pulse.val < 60
        THEN Penalise(st, "pulse", 10, "Bradycardia",
                      "Monitor heart rate regularly")
        ELSE st

\* a fever that costs 20 and adds no label
TemperatureAssessmentSilent(st, vitals) ==
    LET temp == Get(vitals, "temperature", 986)
    IN  IF ~IsNum(temp) THEN Raise(st)
        ELSE IF temp.val > 1004
        THEN Adjust(st, "temperature", 20, "Monitor temperature and hydrate")
        ELSE st

\* lines 510-515; 98.6 and 100.4 in tenths
TemperatureAssessment(st, vitals) ==
    LET temp == Get(vitals, "temperature", 986)
    IN  IF ~IsNum(temp) THEN Raise(st)
        ELSE IF temp.val > 1004
        THEN Penalise(st, "temperature", 20, "Fever",
                      "Monitor temperature and hydrate")
        ELSE st

\* lines 517-522
SpO2Assessment(st, vitals) ==
    LET spo2 == Get(vitals, "spo2", 98)
    IN  IF ~IsNum(spo2) THEN Raise(st)
        ELSE IF spo2.val < 95
        THEN Penalise(st, "spo2", 25, "Low Oxygen Saturation",
                      "Respiratory evaluation needed")
        ELSE st

\* the tiers with >= for >
AgeAdjustmentInclusive(st, age) ==
    IF age >= 65 THEN Adjust(st, "age", 5, "Regular geriatric check-ups")
    ELSE IF age >= 50 THEN Adjust(st, "age", 2, "Age-appropriate screenings")
    ELSE st

AgeAdjustmentSwapped(st, age) ==
    IF age > 50 THEN Adjust(st, "age", 5, "Regular geriatric check-ups")
    ELSE IF age > 65 THEN Adjust(st, "age", 2, "Age-appropriate screenings")
    ELSE st

\* lines 524-530
AgeAdjustment(st, age) ==
    IF age > 65 THEN Adjust(st, "age", 5, "Regular geriatric check-ups")
    ELSE IF age > 50 THEN Adjust(st, "age", 2, "Age-appropriate screenings")
    ELSE st

\* the test with >= for >
SymptomsImpactInclusive(st, symptoms) ==
    IF symptoms.kind = "none" THEN st
    ELSE IF symptoms.kind = "obj" THEN Raise(st)
    ELSE IF symptoms.chars # <<>> /\ Len(Strip(symptoms.chars)) >= 10
    THEN Adjust(st, "symptoms", 10, "Symptom evaluation recommended")
    ELSE st

SymptomsImpactNoStrip(st, symptoms) ==
    IF symptoms.kind = "none" THEN st
    ELSE IF symptoms.kind = "obj" THEN Raise(st)
    ELSE IF Len(symptoms.chars) > 10
    THEN Adjust(st, "symptoms", 10, "Symptom evaluation recommended")
    ELSE st

\* lines 532-535: `symptoms and len(symptoms.strip()) > 10`
SymptomsImpact(st, symptoms) ==
    IF symptoms.kind = "none" THEN st
    ELSE IF symptoms.kind = "obj" THEN Raise(st)
    ELSE IF symptoms.chars # <<>> /\ Len(Strip(symptoms.chars)) > 10
    THEN Adjust(st, "symptoms", 10, "Symptom evaluation recommended")
    ELSE st

\* a statement of the try block runs only if none before it raised
Then(st, next) == IF st.raised THEN st ELSE next

\* the try block up to line 535: the locals when it is left
TryBlock(vitals, bmi, age, symptoms) ==
    LET s1 == BmiAssessment(ScoreStart, bmi)
        s2 == Then(s1, BloodPressureAssessment(s1, vitals))
        s3 == Then(s2, HeartRateAssessment(s2, vitals))
        s4 == Then(s3, TemperatureAssessment(s3, vitals))
        s5 == Then(s4, SpO2Assessment(s4, vitals))
        s6 == Then(s5, AgeAdjustment(s5, age))
    IN  Then(s6, SymptomsImpact(s6, symptoms))

ClampNoFloor(score) == Min(100, score)

\* line 537: max(0, min(100, score))
Clamp(score) == Max(0, Min(100, score))

StatusOfStrict(score) ==
    IF score > 85 THEN "Excellent"
    ELSE IF score > 70 THEN "Good"
    ELSE IF score > 55 THEN "Fair"
    ELSE "Poor"

\* lines 539-554
StatusOf(score) ==
    IF score >= 85 THEN "Excellent"
    ELSE IF score >= 70 THEN "Good"
    ELSE IF score >= 55 THEN "Fair"
    ELSE "Poor"

\* lines 541-553
ColorOf(status) ==
    CASE status = "Excellent" -> "#4CAF50"
      [] status = "Good" -> "#8BC34A"
      [] status = "Fair" -> "#FF9800"
      [] OTHER -> "#F44336"

\* lines 542-554
MessageOf(status) ==
    CASE status = "Excellent" -> "Your health indicators are excellent!"
      [] status = "Good" ->
           "Your health is generally good with minor areas for improvement."
      [] status = "Fair" -> "Some health concerns need attention."
      [] OTHER -> "Multiple health concerns require immediate attention."

\* lines 564-570: the except branch
Fallback ==
    [score |-> 75, status |-> "Good", color |-> "#8BC34A",
     message |-> "Health assessment completed.",
     risk_factors |-> <<>>, recommendations |-> <<>>]

PartialResult(st) ==
    [score |-> Clamp(st.score), status |-> StatusOf(Clamp(st.score)),
     color |-> ColorOf(StatusOf(Clamp(st.score))),
     message |-> MessageOf(StatusOf(Clamp(st.score))),
     risk_factors |-> st.risk_factors,
     recommendations |-> st.recommendations]

\* lines 537-570: the value returned for the locals st
ReturnValue(st) ==
    IF st.raised THEN Fallback
    ELSE LET score == Clamp(st.score)
             status == StatusOf(score)
         IN  [score |-> score, status |-> status, color |-> ColorOf(status),
              message |-> MessageOf(status),
              risk_factors |-> st.risk_factors,
              recommendations |-> st.recommendations]

\* reads the vitals of the stored health_data when there is one
calculate_health_score_stored(vitals, bmi, age, symptoms) ==
    ReturnValue(TryBlock(IF session.health_data = <<>> THEN vitals
                         ELSE session.health_data[1].vitals,
                         bmi, age, symptoms))

calculate_health_score(vitals, bmi, age, symptoms) ==
    ReturnValue(TryBlock(vitals, bmi, age, symptoms))

\* lines 572-580
get_bmi_category(bmi) ==
    IF BmiLt(bmi, 185) THEN "Underweight"
    ELSE IF BmiLt(bmi, 250) THEN "Normal weight"
    ELSE IF BmiLt(bmi, 300) THEN "Overweight"
    ELSE "Obese"

-----------------------------------------------------------------------------
(* MedicalFacilitiesService.search_facilities, src/app.py 367-461.
   Distances are in metres and ratings in tenths.  Of each returned dict the
   fields name, rating, distance, types, specialty, status and hours are
   kept; user_ratings_total, phone, lat, lng, address and place_id are further
   random draws and strings no property below reads. *)

\* lines 372-407
Hospitals ==
    <<
       [name |-> "City General Hospital", rating |-> 42, base_distance |-> 2300,
        specialty |-> "General Medicine"],
       [name |-> "Metro Medical Center", rating |-> 45, base_distance |-> 3700,
        specialty |-> "Emergency Care"],
       [name |-> "Advanced Care Hospital", rating |-> 41, base_distance |-> 5200,
        specialty |-> "Cardiology"],
       [name |-> "University Medical College", rating |-> 46, base_distance |-> 6800,
        specialty |-> "Research & Teaching"],
       [name |-> "Specialty Care Center", rating |-> 43, base_distance |-> 4500,
        specialty |-> "Specialized Treatment"],
       [name |-> "Regional Medical Hospital", rating |-> 44, base_distance |-> 8200,
        specialty |-> "Multi-Specialty"],
       [name |-> "Heart & Vascular Institute", rating |-> 47, base_distance |-> 9500,
        specialty |-> "Cardiology"],
       [name |-> "Children's Hospital", rating |-> 48, base_distance |-> 12100,
        specialty |-> "Pediatrics"],
       [name |-> "Cancer Treatment Center", rating |-> 46, base_distance |-> 15300,
        specialty |-> "Oncology"],
       [name |-> "Orthopedic Hospital", rating |-> 42, base_distance |-> 18700,
        specialty |-> "Orthopedics"],
       [name |-> "Neuroscience Institute", rating |-> 45, base_distance |-> 22400,
        specialty |-> "Neurology"],
       [name |-> "Women's Health Center", rating |-> 44, base_distance |-> 25800,
        specialty |-> "Gynecology"],
       [name |-> "Eye Care Hospital", rating |-> 43, base_distance |-> 28200,
        specialty |-> "Ophthalmology"],
       [name |-> "Rehabilitation Center", rating |-> 41, base_distance |-> 32500,
        specialty |-> "Rehabilitation"],
       [name |-> "Mental Health Institute", rating |-> 40, base_distance |-> 35700,
        specialty |-> "Psychiatry"],
       [name |-> "Community Hospital East", rating |-> 39, base_distance |-> 38300,
        specialty |-> "General Medicine"],
       [name |-> "Surgical Specialty Hospital", rating |-> 45, base_distance |-> 42100,
        specialty |-> "Surgery"],
       [name |-> "Diabetes Care Center", rating |-> 42, base_distance |-> 45600,
        specialty |-> "Endocrinology"],
       [name |-> "Kidney Treatment Center", rating |-> 41, base_distance |-> 48900,
        specialty |-> "Nephrology"],
       [name |-> "Emergency Medical Center", rating |-> 40, base_distance |-> 52300,
        specialty |-> "Emergency Medicine"],
       [name |-> "Regional Trauma Center", rating |-> 44, base_distance |-> 55800,
        specialty |-> "Trauma Care"],
       [name |-> "Maternity Hospital", rating |-> 43, base_distance |-> 58200,
        specialty |-> "Obstetrics"],
       [name |-> "Spine & Back Institute", rating |-> 42, base_distance |-> 61500,
        specialty |-> "Spinal Care"],
       [name |-> "Skin & Allergy Center", rating |-> 41, base_distance |-> 64700,
        specialty |-> "Dermatology"],
       [name |-> "Digestive Health Center", rating |-> 40, base_distance |-> 67900,
        specialty |-> "Gastroenterology"],
       [name |-> "Sports Medicine Hospital", rating |-> 43, base_distance |-> 71200,
        specialty |-> "Sports Medicine"],
       [name |-> "Senior Care Medical Center", rating |-> 38, base_distance |-> 74500,
        specialty |-> "Geriatrics"],
       [name |-> "Respiratory Care Hospital", rating |-> 41, base_distance |-> 77800,
        specialty |-> "Pulmonology"],
       [name |-> "Blood & Cancer Institute", rating |-> 44, base_distance |-> 81200,
        specialty |-> "Hematology"],
       [name |-> "Plastic Surgery Center", rating |-> 40, base_distance |-> 84500,
        specialty |-> "Plastic Surgery"],
       [name |-> "Pain Management Clinic", rating |-> 39, base_distance |-> 87800,
        specialty |-> "Pain Management"],
       [name |-> "Sleep Disorder Center", rating |-> 42, base_distance |-> 91100,
        specialty |-> "Sleep Medicine"],
       [name |-> "Addiction Treatment Center", rating |-> 40, base_distance |-> 94400,
        specialty |-> "Addiction Medicine"],
       [name |-> "District General Hospital", rating |-> 37, base_distance |-> 97700,
        specialty |-> "General Medicine"]
    >>

\* lines 408-414
Pharmacies ==
    <<
       [name |-> "HealthPlus Pharmacy", rating |-> 44, base_distance |-> 800,
        specialty |-> "24/7 Service"],
       [name |-> "MediCare Drugs", rating |-> 41, base_distance |-> 1200,
        specialty |-> "Prescription Specialist"],
       [name |-> "Quick Meds Pharmacy", rating |-> 42, base_distance |-> 1800,
        specialty |-> "Fast Service"],
       [name |-> "Family Pharmacy", rating |-> 45, base_distance |-> 2100,
        specialty |-> "Consultation Available"],
       [name |-> "Express Medicine", rating |-> 40, base_distance |-> 1500,
        specialty |-> "Home Delivery"]
    >>

\* lines 415-421
Clinics ==
    <<
       [name |-> "Family Health Clinic", rating |-> 46, base_distance |-> 1400,
        specialty |-> "Family Medicine"],
       [name |-> "Quick Care Medical", rating |-> 42, base_distance |-> 2800,
        specialty |-> "Walk-in Clinic"],
       [name |-> "Primary Care Center", rating |-> 43, base_distance |-> 3200,
        specialty |-> "Preventive Care"],
       [name |-> "Urgent Care Plus", rating |-> 44, base_distance |-> 2500,
        specialty |-> "Urgent Care"],
       [name |-> "Community Health Clinic", rating |-> 41, base_distance |-> 3800,
        specialty |-> "Community Care"]
    >>

\* lines 371-422
facilities_data ==
    [hospital |-> Hospitals, pharmacy |-> Pharmacies, clinic |-> Clinics]

\* line 424: facilities_data.get(facility_type, facilities_data['hospital'])
SelectFacilities(facility_type) ==
    IF facility_type \in DOMAIN facilities_data
    THEN facilities_data[facility_type]
    ELSE facilities_data["hospital"]

\* the radius divided by 10000 for 1000
WithinRadiusTenth(facility, radius) == facility.base_distance * 10 <= radius

WithinRadiusStrict(facility, radius) == facility.base_distance < radius

\* lines 425 and 429: facility['base_distance'] <= radius / 1000
WithinRadius(facility, radius) == facility.base_distance <= radius

\* the variation counted twice
ActualDistanceTwice(facility, variation) ==
    Max(100, facility.base_distance + 2 * variation)

\* line 432: max(0.1, base_distance + distance_variation)
ActualDistance(facility, variation) ==
    Max(100, facility.base_distance + variation)

\* line 447: round(actual_distance, 2), to 10 metres, a tie to the even digit
Round2(m) ==
    LET q == m \div 10
        r == m % 10
    IN  IF r < 5 THEN 10 * q
        ELSE IF r > 5 THEN 10 * (q + 1)
        ELSE IF q % 2 = 0 THEN 10 * q ELSE 10 * (q + 1)

\* lines 438-452
FacilityInfo(facility, facility_type, actual_distance) ==
    [name |-> facility.name,
     rating |-> facility.rating,
     status |-> "OPERATIONAL",
     distance |-> Round2(actual_distance),
     types |-> <<facility_type>>,
     specialty |-> facility.specialty,
     hours |-> IF facility_type = "hospital" THEN "Open 24 hours"
               ELSE "Mon-Sat: 9 AM - 9 PM"]

\* the locals before the loop; drawn logs each actual_distance computed
SearchStart == [result_facilities |-> <<>>, drawn |-> <<>>, raised |-> FALSE]

NoSearch == SearchStart

\* the k-th value random.uniform(-0.3, 0.3) returns in a search whose draws
\* are the sequence draws, repeated
Draw(draws, k) == draws[((k - 1) % Len(draws)) + 1]

\* lines 428-453: the loop from facilities[i] on;
\* math.cos(math.radians(lat)) raises for a lat that is no finite number
RECURSIVE Loop(_, _, _, _, _)
Loop(facilities, i, st, fa, draws) ==
    IF i > Len(facilities) \/ st.raised THEN st
    ELSE IF ~WithinRadius(facilities[i], fa.radius)
    THEN Loop(facilities, i + 1, st, fa, draws)
    ELSE LET actual == ActualDistance(facilities[i],
                                      Draw(draws, Len(st.drawn) + 1))
             logged == [st EXCEPT !.drawn = Append(@,
                           [name |-> facilities[i].name,
                            base_distance |-> facilities[i].base_distance,
                            actual_distance |-> actual])]
         IN  IF ~fa.lat_ok
             THEN [logged EXCEPT !.raised = TRUE]
             ELSE Loop(facilities, i + 1,
                       [logged EXCEPT !.result_facilities = Append(@,
                           FacilityInfo(facilities[i], fa.facility_type,
                                        actual))],
                       fa, draws)

\* list.sort(key=...) is stable: x goes after the entries that are not larger
RECURSIVE Insert(_, _)
Insert(sorted, x) ==
    IF sorted = <<>> THEN <<x>>
    ELSE IF sorted[Len(sorted)].distance <= x.distance
    THEN Append(sorted, x)
    ELSE Append(Insert(SubSeq(sorted, 1, Len(sorted) - 1), x),
                sorted[Len(sorted)])

SortDiscarded(list) == list

\* line 456: result_facilities.sort(key=lambda x: x['distance'])
RECURSIVE SortByDistance(_)
SortByDistance(list) ==
    IF list = <<>> THEN <<>>
    ELSE Insert(SortByDistance(SubSeq(list, 1, Len(list) - 1)),
                list[Len(list)])

\* lines 369-457: the locals when the try block is left
SearchBlock(fa, draws) ==
    LET st == Loop(SelectFacilities(fa.facility_type), 1, SearchStart,
                   fa, draws)
    IN  IF st.raised THEN st
        ELSE [st EXCEPT !.result_facilities = SortByDistance(@)]

\* an except branch that returns a one-entry default list
SearchReturnDefaultEntry(st) ==
    IF st.raised
    THEN <<FacilityInfo(Hospitals[1], "hospital", Hospitals[1].base_distance)>>
    ELSE st.result_facilities

\* lines 457-461: the sorted list, or [] from the except branch
SearchReturn(st) == IF st.raised THEN <<>> ELSE st.result_facilities

-----------------------------------------------------------------------------
(* The inputs the health score is checked on *)

\* the whitespace padding put around a symptom text
MaxPad == 6

\* a key left out of the vitals dict
Missing == [kind |-> "missing", val |-> 0]

MkDict(r) == [k \in {x \in DOMAIN r : r[x].kind # "missing"} |-> r[k]]

SysOptions == {Missing, Num(130), Num(131), Num(140), Num(141)}

DiaOptions == {Num(85), Num(86), Num(90), Num(91), PyNone}

PulseOptions == {Num(59), Num(60), Num(100), Num(101), PyNone}

TempOptions == {Missing, Num(1004), Num(1005)}

SpO2Options == {Num(94), Num(95), PyNone}

VitalsInputs ==
    {MkDict([bp_systolic |-> a, bp_diastolic |-> b, pulse |-> c,
             temperature |-> d, spo2 |-> e]) :
        a \in SysOptions, b \in DiaOptions, c \in PulseOptions,
        d \in TempOptions, e \in SpO2Options}

BmiInputs == {Tenths(t) : t \in {184, 185, 250, 251, 300, 301}}

AgeInputs == {50, 51, 65, 66}

Chars(c, n) == [i \in 1..n |-> c]

SymptomInputs ==
    {Str(Chars(" ", l) \o Chars("a", n) \o Chars(" ", t)) :
        l \in {0, MaxPad}, n \in {0, 10, 11}, t \in {0, MaxPad}}
    \cup {NoneStr, PyObj}

ScoreInputs ==
    [vitals : VitalsInputs, bmi : BmiInputs, age : AgeInputs,
     symptoms : SymptomInputs]

\* the call of the end-to-end scenario: normal BMI, age 55, 150/95, pulse 72,
\* 98.6 F, SpO2 97, no symptoms
Scenario ==
    [vitals |-> [bp_systolic |-> Num(150), bp_diastolic |-> Num(95),
                 pulse |-> Num(72), temperature |-> Num(986),
                 spo2 |-> Num(97)],
     bmi |-> Tenths(220), age |-> 55, symptoms |-> Str(<<>>)]

-----------------------------------------------------------------------------
(* State *)

\* main, lines 820-828: the session as main initialises it
SessionInit ==
    [user_location |-> <<>>, coordinates |-> <<>>, health_data |-> <<>>,
     location_set |-> FALSE]

NoFacilityArgs == [facility_type |-> "hospital", radius |-> 0, lat_ok |-> TRUE]

\* no run of the script yet: no AIService built, nothing rendered
BlankPage == [run |-> 0]

\* the stores and the page of a behaviour that only calls one function
NoApp ==
    /\ secrets = <<>>
    /\ environ = <<>>
    /\ ai_service = <<>>
    /\ page = BlankPage

\* one call of calculate_health_score(a.vitals, a.bmi, a.age, a.symptoms)
ScoreCall(a) ==
    /\ args' = a
    /\ result' = <<calculate_health_score(a.vitals, a.bmi, a.age, a.symptoms)>>
    /\ locals' = TryBlock(a.vitals, a.bmi, a.age, a.symptoms)
    /\ calls' = calls + 1
    /\ UNCHANGED <<session, fargs, fresult, flocals, appVars>>

\* the function applied once to the arguments Init drew
Apply ==
    /\ calls = 0
    /\ ScoreCall(args)
    /\ UNCHANGED watched

InitScore ==
    /\ args \in ScoreInputs \cup {Scenario}
    /\ result = <<>>
    /\ locals = ScoreStart
    /\ calls = 0
    /\ session = SessionInit
    /\ watched = <<>>
    /\ fargs = NoFacilityArgs
    /\ fresult = <<>>
    /\ flocals = NoSearch
    /\ NoApp

NextScore == Apply

SpecScore == InitScore /\ [][NextScore]_vars

-----------------------------------------------------------------------------
(* Repeated calls in a changing session *)

\* how many calls of calculate_health_score one behaviour makes
MaxCalls == 3

DetInputs ==
    {[vitals |-> v, bmi |-> b, age |-> 55, symptoms |-> Str(<<>>)] :
        v \in {Scenario.vitals,
               [bp_systolic |-> Num(120), pulse |-> Num(101)],
               [bp_systolic |-> Num(150), spo2 |-> PyNone]},
        b \in {Tenths(184), Tenths(220)}}

InitDet ==
    /\ args \in DetInputs
    /\ result = <<>>
    /\ locals = ScoreStart
    /\ calls = 0
    /\ session = SessionInit
    /\ watched = <<>>
    /\ fargs = NoFacilityArgs
    /\ fresult = <<>>
    /\ flocals = NoSearch
    /\ NoApp

\* a call with any arguments; the history may keep the first call it chooses
Recall ==
    \E a \in DetInputs :
        /\ calls < MaxCalls
        /\ ScoreCall(a)
        /\ \/ UNCHANGED watched
           \/ /\ watched = <<>>
              /\ watched' = <<[args |-> a, result |-> result'[1]]>>

\* main, lines 889-893: the locations random.choice draws from; latitudes and
\* longitudes in 1/10000 of a degree
demo_locations ==
    {
      [city |-> <<"M", "u", "m", "b", "a", "i">>,
       country |-> <<"I", "n", "d", "i", "a">>,
       lat |-> 190760, lon |-> 728777],
      [city |-> <<"D", "e", "l", "h", "i">>,
       country |-> <<"I", "n", "d", "i", "a">>,
       lat |-> 287041, lon |-> 771025],
      [city |-> <<"B", "a", "n", "g", "a", "l", "o", "r", "e">>,
       country |-> <<"I", "n", "d", "i", "a">>,
       lat |-> 129716, lon |-> 775946]
    }

\* main, lines 889-898: the detected location is written to the session
DetectLocation ==
    \E loc \in demo_locations :
        /\ session' = [session EXCEPT !.user_location = <<loc>>,
                                      !.coordinates = <<loc.lat, loc.lon>>,
                                      !.location_set = TRUE]
        /\ UNCHANGED <<args, result, locals, calls, watched, fargs, fresult,
                       flocals, appVars>>

\* main, lines 1184-1207: the submitted form is written to the session
StoreHealthData ==
    \E a \in DetInputs :
        /\ session' = [session EXCEPT !.health_data =
                          <<[vitals |-> a.vitals, bmi |-> a.bmi,
                             age |-> a.age, symptoms |-> a.symptoms,
                             location |-> session.user_location]>>]
        /\ UNCHANGED <<args, result, locals, calls, watched, fargs, fresult,
                       flocals, appVars>>

NextDet == Recall \/ DetectLocation \/ StoreHealthData

SpecDet == InitDet /\ [][NextDet]_vars

-----------------------------------------------------------------------------
(* The searches checked *)

\* the random draws of one search repeat with this period
JitPeriod == 5

\* outcomes of random.uniform(-0.3, 0.3), in metres
JitterSet == {-300, -5, 4, 300}

FacilityTypes == {"hospital", "pharmacy", "clinic", "laboratory"}

\* radii in metres; main searches hospitals within 100000 and pharmacies
\* within 1000 to 25000, 10000 unless the slider is moved
Radii ==
    {0, 700, 800, 1000, 1500, 2000, 2100, 3000, 10000, 25000, 100000}

FacilityInputs ==
    [facility_type : FacilityTypes, radius : Radii, lat_ok : BOOLEAN]

\* one call of search_facilities(lat, lon, facility_type, radius)
Search ==
    /\ fresult = <<>>
    /\ \E draws \in [1..JitPeriod -> JitterSet] :
          LET st == SearchBlock(fargs, draws)
          IN  /\ flocals' = st
              /\ fresult' = <<SearchReturn(st)>>
    /\ UNCHANGED <<args, result, locals, calls, session, watched, fargs,
                   appVars>>

InitFac ==
    /\ args = Scenario
    /\ result = <<>>
    /\ locals = ScoreStart
    /\ calls = 0
    /\ session = SessionInit
    /\ watched = <<>>
    /\ fargs \in FacilityInputs
    /\ fresult = <<>>
    /\ flocals = NoSearch
    /\ NoApp

NextFac == Search

SpecFac == InitFac /\ [][NextFac]_vars

-----------------------------------------------------------------------------
(* What the claims speak of *)

Called == result # <<>>

\* the returned dict
ret == result[1]

\* a vitals entry as the call reads it (the entry, or the default of .get)
Vital(key, default) == Get(args.vitals, key, default)

NumGt(x, n) == IsNum(x) /\ x.val > n

NumLt(x, n) == IsNum(x) /\ x.val < n

NumIn(x, lo, hi) == IsNum(x) /\ lo <= x.val /\ x.val <= hi

Count(seq, x) == Cardinality({i \in DOMAIN seq : seq[i] = x})

RECURSIVE SumAmounts(_)
SumAmounts(ds) ==
    IF ds = <<>> THEN 0 ELSE Head(ds).amount + SumAmounts(Tail(ds))

\* the amounts subtracted in one assessment, in order
AmountsOf(section) ==
    LET idx == {i \in DOMAIN locals.deductions :
                    locals.deductions[i].section = section}
    IN  {locals.deductions[i].amount : i \in idx}

TimesDeducted(section) ==
    Cardinality({i \in DOMAIN locals.deductions :
                    locals.deductions[i].section = section})

\* the returned score is 100 less every amount subtracted, clamped
ScoreIsSumOfDeductions ==
    ret.score = Max(0, Min(100, 100 - SumAmounts(locals.deductions)))

HighBP == NumGt(Vital("bp_systolic", 120), 140)
              \/ NumGt(Vital("bp_diastolic", 80), 90)

StrippedLen ==
    IF args.symptoms.kind = "str" THEN Len(Strip(args.symptoms.chars)) ELSE 0

EveryPenaltyApplies ==
    /\ BmiGt(args.bmi, 300)
    /\ HighBP
    /\ NumGt(Vital("pulse", 75), 100)
    /\ NumGt(Vital("temperature", 986), 1004)
    /\ NumLt(Vital("spo2", 98), 95)
    /\ args.age > 65
    /\ StrippedLen > 10

(* C1: for every input the returned score is an integer in 0..100, and when
   every penalty applies at once (120 points of deductions) it is 0. *)
Thm_C1_ScoreClamped ==
    Called =>
        /\ ret.score \in 0..100
        /\ (EveryPenaltyApplies => ret.score = 0)

Wit_C1_AllPenalties ==
    /\ Called
    /\ EveryPenaltyApplies
    /\ locals.score = -20
    /\ ret.score = 0

(* C2: the status is decided by the returned score alone: >= 85 Excellent,
   70..84 Good, 55..69 Fair, <= 54 Poor. *)
Thm_C2_StatusByScore ==
    Called =>
        /\ (ret.score >= 85) <=> (ret.status = "Excellent")
        /\ (ret.score \in 70..84) <=> (ret.status = "Good")
        /\ (ret.score \in 55..69) <=> (ret.status = "Fair")
        /\ (ret.score <= 54) <=> (ret.status = "Poor")
        /\ \A sc \in 0..100 :
              StatusOf(sc) = (IF sc >= 85 THEN "Excellent"
                              ELSE IF sc >= 70 THEN "Good"
                              ELSE IF sc >= 55 THEN "Fair" ELSE "Poor")

Wit_C2_Boundaries ==
    /\ Called
    /\ ~locals.raised
    /\ ret.score \in {85, 70, 55}
    /\ ret.status = (IF ret.score = 85 THEN "Excellent"
                     ELSE IF ret.score = 70 THEN "Good" ELSE "Fair")

(* C3: the end-to-end scenario (normal BMI, age 55, 150/95, pulse 72, 98.6 F,
   SpO2 97, no symptoms) returns the risk factor High Blood Pressure, the age
   adjustment, score 100 - 25 - 2 = 73 and status Good. *)
Thm_C3_Scenario ==
    (Called /\ args = Scenario) =>
        /\ ret.score = 73
        /\ ret.status = "Good"
        /\ ret.risk_factors = <<"High Blood Pressure">>
        /\ ret.recommendations =
              <<"Blood pressure monitoring needed",
                "Age-appropriate screenings">>
        /\ locals.deductions = <<[section |-> "bp", amount |-> 25],
                                 [section |-> "age", amount |-> 2]>>

Wit_C3_Scenario == Called /\ args = Scenario /\ ret.score = 73

HighBPOnce ==
    /\ Count(ret.risk_factors, "High Blood Pressure") = 1
    /\ TimesDeducted("bp") = 1
    /\ AmountsOf("bp") = {25}
    /\ ScoreIsSumOfDeductions

(* C4 as stated: for every input with systolic > 140 or diastolic > 90 the
   result holds High Blood Pressure exactly once and 25 is subtracted exactly
   once, whatever the other inputs are. *)
Orig_C4_HighBPAlways == (Called /\ HighBP) => HighBPOnce

(* C4 amended: for every input with systolic > 140 or diastolic > 90 on which
   no step of the call raises, the result holds High Blood Pressure exactly
   once and 25 is subtracted exactly once. *)
Thm_C4_HighBPUnlessRaised ==
    (Called /\ HighBP /\ ~locals.raised) => HighBPOnce

Wit_C4_DiastolicOnly ==
    /\ Called
    /\ ~locals.raised
    /\ NumGt(Vital("bp_diastolic", 80), 90)
    /\ ~NumGt(Vital("bp_systolic", 120), 140)
    /\ Count(ret.risk_factors, "High Blood Pressure") = 1

UnderweightOnce ==
    /\ Count(ret.risk_factors, "Underweight") = 1
    /\ Count(ret.risk_factors, "Obesity") = 0
    /\ Count(ret.risk_factors, "Overweight") = 0
    /\ TimesDeducted("bmi") = 1
    /\ AmountsOf("bmi") = {15}
    /\ ScoreIsSumOfDeductions

(* C5 as stated: for every input with BMI < 18.5 the underweight penalty 15
   is subtracted exactly once, no other BMI penalty applies and Underweight is
   in risk_factors exactly once. *)
Orig_C5_UnderweightAlways == (Called /\ BmiLt(args.bmi, 185)) => UnderweightOnce

(* C5 amended: the same for every input with BMI < 18.5 on which no step of
   the call raises. *)
Thm_C5_UnderweightUnlessRaised ==
    (Called /\ BmiLt(args.bmi, 185) /\ ~locals.raised) => UnderweightOnce

Wit_C5_Underweight ==
    /\ Called
    /\ ~locals.raised
    /\ BmiLt(args.bmi, 185)
    /\ ret.risk_factors[1] = "Underweight"

\* the conditions of C6 other than the blood pressure
NoOtherCondition ==
    /\ ~BmiLt(args.bmi, 185) /\ BmiLt(args.bmi, 250)
    /\ NumIn(Vital("pulse", 75), 60, 100)
    /\ NumIn(Vital("temperature", 986), 0, 1004)
    /\ NumIn(Vital("spo2", 98), 95, 100)
    /\ args.age <= 50
    /\ args.symptoms.kind \in {"str", "none"}
    /\ StrippedLen <= 10

Untouched ==
    /\ ret.score = 100
    /\ ret.risk_factors = <<>>
    /\ ret.recommendations = <<>>

(* C6 as stated: BMI in [18.5, 25), systolic <= 140, diastolic <= 90,
   60 <= pulse <= 100, temperature <= 100.4, SpO2 >= 95, age <= 50 and at
   most 10 stripped symptom characters give score 100 and empty lists. *)
Orig_C6_NoPenaltyUpTo140 ==
    (/\ Called
     /\ NoOtherCondition
     /\ NumIn(Vital("bp_systolic", 120), 0, 140)
     /\ NumIn(Vital("bp_diastolic", 80), 0, 90)) => Untouched

(* C6 amended: the same with systolic <= 130 and diastolic <= 85 (131..140 or
   86..90 is Elevated Blood Pressure, 15 points). *)
Thm_C6_NoPenaltyUpTo130 ==
    (/\ Called
     /\ NoOtherCondition
     /\ NumIn(Vital("bp_systolic", 120), 0, 130)
     /\ NumIn(Vital("bp_diastolic", 80), 0, 85)) => Untouched

Wit_C6_AllAtTheBoundary ==
    /\ Called
    /\ NoOtherCondition
    /\ Vital("bp_systolic", 120) = Num(130)
    /\ Vital("bp_diastolic", 80) = Num(85)
    /\ Vital("pulse", 75) = Num(100)
    /\ Vital("temperature", 986) = Num(1004)
    /\ Vital("spo2", 98) = Num(95)
    /\ args.age = 50
    /\ StrippedLen = 10 /\ Len(args.symptoms.chars) > 10
    /\ ret.score = 100

HasBmiRisk ==
    \E i \in DOMAIN ret.risk_factors :
        ret.risk_factors[i] \in {"Underweight", "Overweight", "Obesity"}

(* C7 as stated, on the calls that do not raise: a BMI risk factor is present
   if and only if get_bmi_category(bmi) is not Normal weight, and the label is
   Obesity exactly when get_bmi_category(bmi) is Obese. *)
Orig_C7_BmiRiskMatchesCategory ==
    (Called /\ ~locals.raised) =>
        /\ HasBmiRisk <=> (get_bmi_category(args.bmi) # "Normal weight")
        /\ (Count(ret.risk_factors, "Obesity") = 1)
              <=> (get_bmi_category(args.bmi) = "Obese")

(* C8: when a step of the call raises, the call returns score 75, status
   Good and empty risk_factors and recommendations, whatever was accumulated
   before the step that raised. *)
Thm_C8_FallbackOnError ==
    (Called /\ locals.raised) =>
        /\ ret.score = 75
        /\ ret.status = "Good"
        /\ ret.risk_factors = <<>>
        /\ ret.recommendations = <<>>

Wit_C8_RaisedAfterPenalties ==
    /\ Called
    /\ locals.raised
    /\ Len(locals.risk_factors) >= 2
    /\ locals.score < 75
    /\ ret.score = 75

(* C9: a call changes no session variable, and a call with the arguments of
   an earlier call returns what the earlier call returned, whatever the
   session has become and whatever was called in between. *)
Thm_C9_StatelessDeterministic ==
    [][(calls' = calls + 1) =>
          /\ session' = session
          /\ (watched' # <<>> /\ args' = watched'[1].args)
                => result'[1] = watched'[1].result]_vars

Wit_C9_SameArgsAgain ==
    /\ calls = MaxCalls
    /\ watched # <<>>
    /\ args = watched[1].args
    /\ result[1] = watched[1].result
    /\ session.location_set
    /\ session.health_data # <<>>
    /\ session.health_data[1].vitals # args.vitals

Searched == fresult # <<>>

\* the returned list
found == fresult[1]

Selected == SelectFacilities(fargs.facility_type)

TimesReturned(name) ==
    Cardinality({i \in DOMAIN found : found[i].name = name})

FromCatalogWithinRadius ==
    \A i \in DOMAIN found :
        \E k \in DOMAIN Selected :
            /\ Selected[k].name = found[i].name
            /\ Selected[k].base_distance <= fargs.radius

EveryEntryWithinRadiusOnce ==
    \A k \in DOMAIN Selected :
        TimesReturned(Selected[k].name) =
            (IF Selected[k].base_distance <= fargs.radius THEN 1 ELSE 0)

(* C10 as stated: for every facility type, radius and jitter outcome every
   returned entry comes from a catalog entry with base_distance <= radius,
   and every catalog entry of the selected type with base_distance <= radius
   is returned exactly once. *)
Orig_C10_ExactlyTheEntriesWithinRadius ==
    Searched => (FromCatalogWithinRadius /\ EveryEntryWithinRadiusOnce)

(* C10 amended: every returned entry comes from a catalog entry with
   base_distance <= radius; and when no step of the search raises, every
   catalog entry of the selected type with base_distance <= radius is
   returned exactly once. *)
Thm_C10_WithinRadiusAndCompleteUnlessRaised ==
    Searched =>
        /\ FromCatalogWithinRadius
        /\ ~flocals.raised => EveryEntryWithinRadiusOnce

Wit_C10_BorderlineEntryReturned ==
    /\ Searched
    /\ ~flocals.raised
    /\ fargs.facility_type = "pharmacy"
    /\ fargs.radius = 1500
    /\ Len(found) = 3
    /\ \E i \in DOMAIN found :
          found[i].name = "Express Medicine" /\ found[i].distance > 1500

(* C11: for every facility type, radius and jitter outcome the returned list
   is in non-decreasing order of the reported distance. *)
Thm_C11_SortedByDistance ==
    Searched =>
        \A i, j \in DOMAIN found :
            i < j => found[i].distance <= found[j].distance

\* the sort moved an entry: the returned order is not the order of the loop
Wit_C11_SortReordered ==
    /\ Searched
    /\ ~flocals.raised
    /\ Len(found) >= 3
    /\ \E i \in DOMAIN found : found[i].name # flocals.drawn[i].name
    /\ \E i \in DOMAIN found :
          i < Len(found) /\ found[i].distance = found[i + 1].distance

(* C12 as stated: for every radius and jitter outcome the reported distance
   of every returned entry is <= the radius. *)
Orig_C12_ReportedDistanceWithinRadius ==
    Searched => \A i \in DOMAIN found : found[i].distance <= fargs.radius

-----------------------------------------------------------------------------
(* Config.get_api_key, src/app.py 28-63, and the credential main uses *)

\* a str is truthy unless it is empty
Truthy(v) == v # ""

\* dict.get(key) of a dict of str; "" stands for the None of a missing key
GetStr(d, key) == IF key \in DOMAIN d THEN d[key] ELSE ""

\* d[key] = v
Put(d, key, v) == [k \in DOMAIN d \cup {key} |-> IF k = key THEN v ELSE d[k]]

\* line 47: the alternative names of the OpenAI key, in the order tried
AltNames == <<"OPENAI_KEY", "OPENAI_API_TOKEN", "OPENAI_TOKEN">>

KeyNames == {"OPENAI_API_KEY"} \cup {AltNames[i] : i \in DOMAIN AltNames}

\* lines 54-59
fallback_keys ==
    [OPENAI_API_KEY |-> "demo-openai-key",
     NEWS_API_KEY |-> "demo-news-key",
     GOOGLE_PLACES_API_KEY |-> "demo-places-key"]

\* lines 48-52: the alternatives from the i-th on; <<>> when none returns
RECURSIVE AltLookup(_, _, _)
AltLookup(sec, env, i) ==
    IF i > Len(AltNames) THEN <<>>
    ELSE LET alt_key == AltNames[i]
         IN  IF alt_key \in DOMAIN sec THEN <<sec[alt_key]>>
             ELSE IF Truthy(GetStr(env, alt_key)) THEN <<env[alt_key]>>
             ELSE AltLookup(sec, env, i + 1)

\* lines 30-63; secs is <<>> when reading st.secrets raises (line 61-63)
get_api_key(key_name, secs, env) ==
    IF secs = <<>> THEN "demo-key"
    ELSE LET sec == secs[1]
             alt == IF key_name = "OPENAI_API_KEY"
                    THEN AltLookup(sec, env, 1)
                    ELSE <<>>
         IN  IF key_name \in DOMAIN sec THEN sec[key_name]
             ELSE IF Truthy(GetStr(env, key_name)) THEN env[key_name]
             ELSE IF alt # <<>> THEN alt[1]
             ELSE IF key_name \in DOMAIN fallback_keys
                  THEN fallback_keys[key_name]
                  ELSE "demo-key"

\* lines 175-177: AIService()
AIService == [api_key |-> get_api_key("OPENAI_API_KEY", secrets, environ)]

\* lines 848-852: the session after the key field held the text typed
SessionAfterKeyInput(typed) ==
    IF Truthy(typed) THEN Put(session, "openai_api_key", typed) ELSE session

\* line 863: session_state.get('openai_api_key') or Config.get_api_key(...)
openai_key(sess) ==
    IF Truthy(GetStr(sess, "openai_api_key"))
    THEN sess["openai_api_key"]
    ELSE get_api_key("OPENAI_API_KEY", secrets, environ)

\* line 869: the AI Service line of the system status
AIStatus(key) ==
    IF key # "demo-openai-key" THEN "OpenAI Connected" ELSE "Demo Mode"

(* The stores the lookup is checked on *)

\* how many runs of the script one behaviour makes
MaxRuns == 3

\* the value each store holds under a name, when it holds one
SecretValue ==
    [OPENAI_API_KEY |-> "sk-secret", OPENAI_KEY |-> "sk-secret-key",
     OPENAI_API_TOKEN |-> "sk-secret-api-token",
     OPENAI_TOKEN |-> "sk-secret-token"]

EnvValue ==
    [OPENAI_API_KEY |-> "sk-env", OPENAI_KEY |-> "sk-env-key",
     OPENAI_API_TOKEN |-> "sk-env-api-token", OPENAI_TOKEN |-> "sk-env-token"]

\* st.secrets: unreadable, or a dict holding some of the names
SecretStores ==
    {<<>>} \cup {<<[k \in S |-> SecretValue[k]]>> : S \in SUBSET KeyNames}

\* os.environ: some of the names, set to a value or to the empty string
Environs ==
    UNION {[S -> {"e", ""}] : S \in SUBSET KeyNames}

EnvOf(e) == [k \in DOMAIN e |-> IF e[k] = "e" THEN EnvValue[k] ELSE ""]

\* what the key field of the sidebar may hold in a run
KeyInputs == {"", "sk-typed", "sk-retyped"}

\* one run of main up to the system status (lines 591-872) with the key field
\* holding typed
RunSidebar ==
    \E typed \in KeyInputs :
        /\ page.run < MaxRuns
        /\ ai_service' = <<AIService>>
        /\ session' = SessionAfterKeyInput(typed)
        /\ page' = [run |-> page.run + 1,
                    openai_key_input |-> typed,
                    openai_key |-> openai_key(session'),
                    ai_status |-> AIStatus(openai_key(session'))]
        /\ UNCHANGED <<args, result, locals, calls, watched, fargs, fresult,
                       flocals, secrets, environ>>

InitKey ==
    /\ args = Scenario
    /\ result = <<>>
    /\ locals = ScoreStart
    /\ calls = 0
    /\ session = SessionInit
    /\ watched = <<>>
    /\ fargs = NoFacilityArgs
    /\ fresult = <<>>
    /\ flocals = NoSearch
    /\ secrets \in SecretStores
    /\ environ \in {EnvOf(e) : e \in Environs}
    /\ ai_service = <<>>
    /\ page = BlankPage

NextKey == RunSidebar

SpecKey == InitKey /\ [][NextKey]_vars

\* the first name of the order primary, alternatives that d holds truthy
RECURSIVE FirstHeld(_, _)
FirstHeld(d, names) ==
    IF names = <<>> THEN ""
    ELSE IF Truthy(GetStr(d, Head(names))) THEN d[Head(names)]
    ELSE FirstHeld(d, Tail(names))

\* session value, then secret store, then environment, then the sentinel
FirstAvailable ==
    LET names == <<"OPENAI_API_KEY">> \o AltNames
        fromSecrets == IF secrets = <<>> THEN ""
                       ELSE FirstHeld(secrets[1], names)
        fromEnv == FirstHeld(environ, names)
    IN  IF Truthy(GetStr(session, "openai_api_key"))
        THEN session["openai_api_key"]
        ELSE IF Truthy(fromSecrets) THEN fromSecrets
        ELSE IF Truthy(fromEnv) THEN fromEnv
        ELSE "demo-openai-key"

(* C13 as stated: after every run, for every combination of values in the
   session, the secret store and the environment, the credential of the
   sidebar status and the credential held by AIService are both the first
   available of session value, secret store, environment, demo sentinel. *)
Orig_C13_CredentialOrder ==
    page.run > 0 =>
        /\ page.openai_key = FirstAvailable
        /\ ai_service[1].api_key = FirstAvailable

-----------------------------------------------------------------------------
(* AIService.get_response, src/app.py 179-190, and the request main makes of
   it, 1453-1520.  A text is the sequence of its characters. *)

\* str.lower() on the letters the texts use
LowerOf ==
    [A |-> "a", B |-> "b", C |-> "c", D |-> "d", E |-> "e", F |-> "f",
     G |-> "g", H |-> "h", I |-> "i", J |-> "j", K |-> "k", L |-> "l",
     M |-> "m", N |-> "n", O |-> "o", P |-> "p", Q |-> "q", R |-> "r",
     S |-> "s", T |-> "t", U |-> "u", V |-> "v", W |-> "w", X |-> "x",
     Y |-> "y", Z |-> "z"]

lower(text) ==
    IF text = <<>> THEN <<>>
    ELSE [i \in 1..Len(text) |->
             IF text[i] \in DOMAIN LowerOf THEN LowerOf[text[i]] ELSE text[i]]

\* sub in text
In(sub, text) ==
    \E i \in 1..(Len(text) - Len(sub) + 1) :
        SubSeq(text, i, i + Len(sub) - 1) = sub

\* lines 182 and 184: the keywords

kw_symptoms ==
    <<"s", "y", "m", "p", "t", "o", "m", "s">>

kw_pain ==
    <<"p", "a", "i", "n">>

kw_medicine ==
    <<"m", "e", "d", "i", "c", "i", "n", "e">>

kw_medication ==
    <<"m", "e", "d", "i", "c", "a", "t", "i", "o", "n">>

\* lines 192-360: the three fixed texts, each named by its heading; no helper
\* reads its prompt or its context
get_symptom_analysis(prompt, context) ==
    "Symptom Analysis & Recommendations"

get_medicine_recommendations(prompt, context) ==
    "Medicine Recommendations & Guidelines"

get_general_health_advice(prompt, context) ==
    "Comprehensive Health Guidance"

\* line 190
TechnicalDifficulties ==
    "I'm experiencing technical difficulties. Please consult a healthcare professional for medical advice."

\* the two tests in the other order
get_response_medicine_first(prompt, context) ==
    IF prompt.kind # "str" THEN TechnicalDifficulties
    ELSE IF \/ In(kw_medicine, lower(prompt.chars))
            \/ In(kw_medication, lower(prompt.chars))
         THEN get_medicine_recommendations(prompt, context)
    ELSE IF \/ In(kw_symptoms, lower(prompt.chars))
            \/ In(kw_pain, lower(prompt.chars))
         THEN get_symptom_analysis(prompt, context)
    ELSE get_general_health_advice(prompt, context)

\* lines 179-190; prompt.lower() raises for a prompt that is no str
get_response(prompt, context) ==
    IF prompt.kind # "str" THEN TechnicalDifficulties
    ELSE IF \/ In(kw_symptoms, lower(prompt.chars))
            \/ In(kw_pain, lower(prompt.chars))
         THEN get_symptom_analysis(prompt, context)
    ELSE IF \/ In(kw_medicine, lower(prompt.chars))
            \/ In(kw_medication, lower(prompt.chars))
         THEN get_medicine_recommendations(prompt, context)
    ELSE get_general_health_advice(prompt, context)

(* json.dumps(st.session_state.health_data, default=str, indent=2), line 1463.
   A dict is the sequence of its items [key, value] in insertion order, a
   value being its JSON text.  The line breaks and the indentation that
   indent=2 puts between the items are left out. *)

\* a str value: the text in double quotes
JsonStr(text) == <<"\"">> \o text \o <<"\"">>

RECURSIVE JsonItems(_)
JsonItems(items) ==
    IF items = <<>> THEN <<>>
    ELSE JsonStr(items[1].key) \o <<":", " ">> \o items[1].value
         \o (IF Len(items) > 1 THEN <<",">> ELSE <<>>)
         \o JsonItems(Tail(items))

json_dumps(items) == <<"{">> \o JsonItems(items) \o <<"}">>

\* lines 1184-1207: the keys of health_data

key_patient ==
    <<"p", "a", "t", "i", "e", "n", "t">>

key_vitals ==
    <<"v", "i", "t", "a", "l", "s">>

key_bmi_info ==
    <<"b", "m", "i", "_", "i", "n", "f", "o">>

key_symptoms ==
    <<"s", "y", "m", "p", "t", "o", "m", "s">>

key_medical_history ==
    <<"m", "e", "d", "i", "c", "a", "l", "_", "h", "i", "s", "t", "o", "r",
      "y">>

key_medications ==
    <<"m", "e", "d", "i", "c", "a", "t", "i", "o", "n", "s">>

key_pain_scale ==
    <<"p", "a", "i", "n", "_", "s", "c", "a", "l", "e">>

key_symptom_duration ==
    <<"s", "y", "m", "p", "t", "o", "m", "_", "d", "u", "r", "a", "t", "i",
      "o", "n">>

key_lifestyle ==
    <<"l", "i", "f", "e", "s", "t", "y", "l", "e">>

key_emergency_symptoms ==
    <<"e", "m", "e", "r", "g", "e", "n", "c", "y", "_", "s", "y", "m", "p",
      "t", "o", "m", "s">>

key_location ==
    <<"l", "o", "c", "a", "t", "i", "o", "n">>

key_timestamp ==
    <<"t", "i", "m", "e", "s", "t", "a", "m", "p">>

\* line 1186
key_name ==
    <<"n", "a", "m", "e">>

\* lines 1184-1207: the health_data a submitted form stores.  Of 'patient'
\* the name is kept; the dicts of numbers and of choices from fixed lists
\* ('vitals', 'bmi_info', 'lifestyle', 'location') and the timestamp are
\* kept as keys with an empty value
HealthData(form) ==
    <<[key |-> key_patient,
       value |-> json_dumps(<<[key |-> key_name,
                               value |-> JsonStr(form.name)]>>)],
      [key |-> key_vitals, value |-> json_dumps(<<>>)],
      [key |-> key_bmi_info, value |-> json_dumps(<<>>)],
      [key |-> key_symptoms, value |-> JsonStr(form.symptoms)],
      [key |-> key_medical_history, value |-> JsonStr(<<>>)],
      [key |-> key_medications, value |-> JsonStr(form.medications)],
      [key |-> key_pain_scale, value |-> form.pain_scale],
      [key |-> key_symptom_duration, value |-> JsonStr(<<>>)],
      [key |-> key_lifestyle, value |-> json_dumps(<<>>)],
      [key |-> key_emergency_symptoms, value |-> <<"[", "]">>],
      [key |-> key_location, value |-> json_dumps(<<>>)],
      [key |-> key_timestamp, value |-> JsonStr(<<>>)]>>

\* lines 1415-1421
analysis_options ==
    <<"Comprehensive Health Analysis", "Symptom-Based Recommendations",
      "Medication Guidance", "Lifestyle Recommendations",
      "Emergency Assessment">>

AnalysisTypes == {analysis_options[i] : i \in DOMAIN analysis_options}


\* line 1467, the text before {context}
ComprehensivePrompt ==
    <<"P", "r", "o", "v", "i", "d", "e", " ", "a", " ", "c", "o", "m", "p",
      "r", "e", "h", "e", "n", "s", "i", "v", "e", " ", "h", "e", "a", "l",
      "t", "h", " ", "a", "n", "a", "l", "y", "s", "i", "s", " ", "b", "a",
      "s", "e", "d", " ", "o", "n", " ", "t", "h", "e", " ", "f", "o", "l",
      "l", "o", "w", "i", "n", "g", " ", "p", "a", "t", "i", "e", "n", "t",
      " ", "d", "a", "t", "a", ".", " ", "I", "n", "c", "l", "u", "d", "e",
      " ", "v", "i", "t", "a", "l", " ", "s", "i", "g", "n", "s", " ", "a",
      "s", "s", "e", "s", "s", "m", "e", "n", "t", ",", " ", "B", "M", "I",
      " ", "a", "n", "a", "l", "y", "s", "i", "s", ",", " ", "h", "e", "a",
      "l", "t", "h", " ", "s", "c", "o", "r", "e", " ", "i", "n", "t", "e",
      "r", "p", "r", "e", "t", "a", "t", "i", "o", "n", ",", " ", "a", "n",
      "d", " ", "p", "e", "r", "s", "o", "n", "a", "l", "i", "z", "e", "d",
      " ", "r", "e", "c", "o", "m", "m", "e", "n", "d", "a", "t", "i", "o",
      "n", "s", ":", " ">>

\* line 1468, the text before {context}
SymptomPrompt ==
    <<"F", "o", "c", "u", "s", " ", "o", "n", " ", "s", "y", "m", "p", "t",
      "o", "m", " ", "a", "n", "a", "l", "y", "s", "i", "s", " ", "a", "n",
      "d", " ", "t", "r", "e", "a", "t", "m", "e", "n", "t", " ", "r", "e",
      "c", "o", "m", "m", "e", "n", "d", "a", "t", "i", "o", "n", "s", ".",
      " ", "P", "r", "o", "v", "i", "d", "e", " ", "s", "p", "e", "c", "i",
      "f", "i", "c", " ", "g", "u", "i", "d", "a", "n", "c", "e", " ", "f",
      "o", "r", " ", "r", "e", "p", "o", "r", "t", "e", "d", " ", "s", "y",
      "m", "p", "t", "o", "m", "s", ",", " ", "m", "o", "n", "i", "t", "o",
      "r", "i", "n", "g", " ", "g", "u", "i", "d", "e", "l", "i", "n", "e",
      "s", ",", " ", "a", "n", "d", " ", "w", "h", "e", "n", " ", "t", "o",
      " ", "s", "e", "e", "k", " ", "m", "e", "d", "i", "c", "a", "l", " ",
      "c", "a", "r", "e", ":", " ">>

\* line 1469, the text before {context}
MedicationPrompt ==
    <<"P", "r", "o", "v", "i", "d", "e", " ", "d", "e", "t", "a", "i", "l",
      "e", "d", " ", "m", "e", "d", "i", "c", "a", "t", "i", "o", "n", " ",
      "r", "e", "c", "o", "m", "m", "e", "n", "d", "a", "t", "i", "o", "n",
      "s", " ", "a", "n", "d", " ", "g", "u", "i", "d", "a", "n", "c", "e",
      ".", " ", "I", "n", "c", "l", "u", "d", "e", " ", "O", "T", "C", " ",
      "o", "p", "t", "i", "o", "n", "s", ",", " ", "n", "a", "t", "u", "r",
      "a", "l", " ", "s", "u", "p", "p", "l", "e", "m", "e", "n", "t", "s",
      ",", " ", "s", "a", "f", "e", "t", "y", " ", "i", "n", "f", "o", "r",
      "m", "a", "t", "i", "o", "n", ",", " ", "a", "n", "d", " ", "i", "n",
      "t", "e", "r", "a", "c", "t", "i", "o", "n", " ", "w", "a", "r", "n",
      "i", "n", "g", "s", ":", " ">>

\* line 1470, the text before {context}
LifestylePrompt ==
    <<"S", "u", "g", "g", "e", "s", "t", " ", "c", "o", "m", "p", "r", "e",
      "h", "e", "n", "s", "i", "v", "e", " ", "l", "i", "f", "e", "s", "t",
      "y", "l", "e", " ", "c", "h", "a", "n", "g", "e", "s", " ", "a", "n",
      "d", " ", "i", "m", "p", "r", "o", "v", "e", "m", "e", "n", "t", "s",
      ".", " ", "I", "n", "c", "l", "u", "d", "e", " ", "e", "x", "e", "r",
      "c", "i", "s", "e", ",", " ", "n", "u", "t", "r", "i", "t", "i", "o",
      "n", ",", " ", "s", "l", "e", "e", "p", ",", " ", "s", "t", "r", "e",
      "s", "s", " ", "m", "a", "n", "a", "g", "e", "m", "e", "n", "t", ",",
      " ", "a", "n", "d", " ", "h", "a", "b", "i", "t", " ", "m", "o", "d",
      "i", "f", "i", "c", "a", "t", "i", "o", "n", " ", "r", "e", "c", "o",
      "m", "m", "e", "n", "d", "a", "t", "i", "o", "n", "s", ":", " ">>

\* line 1471, the text before {context}
EmergencyPrompt ==
    <<"A", "s", "s", "e", "s", "s", " ", "e", "m", "e", "r", "g", "e", "n",
      "c", "y", " ", "s", "y", "m", "p", "t", "o", "m", "s", " ", "a", "n",
      "d", " ", "p", "r", "o", "v", "i", "d", "e", " ", "u", "r", "g", "e",
      "n", "t", " ", "c", "a", "r", "e", " ", "g", "u", "i", "d", "a", "n",
      "c", "e", ".", " ", "I", "n", "c", "l", "u", "d", "e", " ", "i", "m",
      "m", "e", "d", "i", "a", "t", "e", " ", "a", "c", "t", "i", "o", "n",
      " ", "s", "t", "e", "p", "s", ",", " ", "e", "m", "e", "r", "g", "e",
      "n", "c", "y", " ", "c", "o", "n", "t", "a", "c", "t", "s", ",", " ",
      "a", "n", "d", " ", "w", "h", "e", "n", " ", "t", "o", " ", "s", "e",
      "e", "k", " ", "e", "m", "e", "r", "g", "e", "n", "c", "y", " ", "c",
      "a", "r", "e", ":", " ">>


\* lines 1466-1474: prompts.get(analysis_type, prompts["Comprehensive ..."])
PromptFor(analysis_type, context) ==
    (CASE analysis_type = "Symptom-Based Recommendations" -> SymptomPrompt
       [] analysis_type = "Medication Guidance" -> MedicationPrompt
       [] analysis_type = "Lifestyle Recommendations" -> LifestylePrompt
       [] analysis_type = "Emergency Assessment" -> EmergencyPrompt
       [] OTHER -> ComprehensivePrompt) \o context

\* lines 1454-1515: the handler of a click on "Get AI Analysis", for the
\* session sess, the AIService ai of the run and the type selected
AIAnalysis(sess, ai, analysis_type) ==
    IF sess.health_data = <<>>
    THEN [session |-> sess, analysis_type |-> analysis_type,
          error |-> TRUE, prompt |-> <<>>, ai_response |-> <<>>]
    ELSE LET context == json_dumps(sess.health_data[1])
             prompt == PromptFor(analysis_type, context)
         IN  [session |-> Put(Put(Put(sess, "ai_analysis_done", TRUE),
                                  "last_analysis_type", analysis_type),
                              "last_analysis_time", "HH:MM:SS"),
              analysis_type |-> analysis_type,
              error |-> FALSE,
              prompt |-> prompt,
              ai_response |-> <<get_response(Str(prompt), Str(context))>>]

(* The requests checked *)

\* the text fields of the form that reach the prompt
FormTexts ==
    [name : {<<"A", "n", "n">>},
     symptoms : {<<>>, <<"c", "o", "u", "g", "h">>,
                 <<"C", "h", "e", "s", "t", " ", "P", "A", "I", "N">>},
     medications : {<<>>, <<"M", "e", "d", "i", "c", "i", "n", "e">>},
     pain_scale : {<<"7">>}]

\* prompts given to get_response directly
PromptInputs ==
    {<<>>,
     <<"M", "y", " ", "S", "Y", "M", "P", "T", "O", "M", "S">>,
     <<"P", "a", "i", "n", " ", "a", "n", "d", " ", "m", "e", "d", "i",
        "c", "i", "n", "e">>,
     <<"M", "e", "d", "i", "c", "a", "t", "i", "o", "n", " ", "f", "o",
        "r", " ", "P", "A", "I", "N">>,
     <<"M", "e", "d", "i", "c", "i", "n", "e", " ", "f", "o", "r", " ",
        "a", " ", "c", "o", "u", "g", "h">>,
     <<"M", "E", "D", "I", "C", "A", "T", "I", "O", "N", " ", "l", "i",
        "s", "t">>,
     <<"A", " ", "d", "i", "e", "t", " ", "p", "l", "a", "n">>,
     <<"O", "n", "e", " ", "s", "y", "m", "p", "t", "o", "m", ",", " ",
        "a", " ", "m", "e", "d", "i", "c">>,
     <<"I", "n", " ", "S", "p", "a", "i", "n">>}

ContextInputs ==
    {NoneStr, Str(json_dumps(<<>>)),
     Str(json_dumps(<<[key |-> key_symptoms, value |-> JsonStr(kw_pain)]>>))}

\* the stores of three deployments: no key, a secret, unreadable secrets
KeyStores ==
    {[secrets |-> << <<>> >>, environ |-> <<>>],
     [secrets |-> <<[OPENAI_API_KEY |-> "sk-secret"]>>, environ |-> <<>>],
     [secrets |-> <<>>, environ |-> [OPENAI_API_KEY |-> "sk-env"]]}

\* one call ai_service.get_response(prompt, context)
Ask ==
    \E p \in PromptInputs, c \in ContextInputs :
        /\ page.run < MaxRuns
        /\ ai_service' = <<AIService>>
        /\ page' = [run |-> page.run + 1, op |-> "get_response",
                    analysis_type |-> "", error |-> FALSE,
                    prompt |-> p, context |-> c,
                    ai_response |-> <<get_response(Str(p), c)>>]
        /\ UNCHANGED <<args, result, locals, calls, session, watched, fargs,
                       fresult, flocals, secrets, environ>>

\* a run of main in which the click on "Get AI Analysis" is handled
GetAnalysis ==
    \E analysis_type \in AnalysisTypes :
        LET done == AIAnalysis(session, AIService, analysis_type)
        IN  /\ page.run < MaxRuns
            /\ ai_service' = <<AIService>>
            /\ session' = done.session
            /\ page' = [run |-> page.run + 1, op |-> "analysis",
                        analysis_type |-> analysis_type,
                        error |-> done.error,
                        prompt |-> done.prompt, context |-> NoneStr,
                        ai_response |-> done.ai_response]
            /\ UNCHANGED <<args, result, locals, calls, watched, fargs,
                           fresult, flocals, secrets, environ>>

InitAI ==
    /\ args = Scenario
    /\ result = <<>>
    /\ locals = ScoreStart
    /\ calls = 0
    /\ session \in {SessionInit}
                   \cup {[SessionInit EXCEPT !.health_data = <<HealthData(f)>>] :
                            f \in FormTexts}
    /\ watched = <<>>
    /\ fargs = NoFacilityArgs
    /\ fresult = <<>>
    /\ flocals = NoSearch
    /\ \E k \in KeyStores : secrets = k.secrets /\ environ = k.environ
    /\ ai_service = <<>>
    /\ page = BlankPage

NextAI == Ask \/ GetAnalysis

SpecAI == InitAI /\ [][NextAI]_vars

\* the last step was the handler of "Get AI Analysis" and it built a prompt
Analysed == page.run > 0 /\ page.op = "analysis" /\ ~page.error

\* the last step was a direct call of get_response
Asked == page.run > 0 /\ page.op = "get_response"

shown == page.ai_response[1]

(* C14 as stated: for every stored health_data, the text shown for
   "Medication Guidance" is the medicine-recommendations text, for
   "Symptom-Based Recommendations" the symptom-analysis text, and for
   "Comprehensive Health Analysis" and "Lifestyle Recommendations" the
   general-advice text. *)
Orig_C14_TextByAnalysisType ==
    Analysed =>
        /\ page.analysis_type = "Medication Guidance"
              => shown = "Medicine Recommendations & Guidelines"
        /\ page.analysis_type = "Symptom-Based Recommendations"
              => shown = "Symptom Analysis & Recommendations"
        /\ page.analysis_type \in {"Comprehensive Health Analysis",
                                   "Lifestyle Recommendations"}
              => shown = "Comprehensive Health Guidance"

\* the keyword tests of C15 on the lower-cased prompt
HasSymptomWord(p) == In(kw_symptoms, lower(p)) \/ In(kw_pain, lower(p))

HasMedicineWord(p) == In(kw_medicine, lower(p)) \/ In(kw_medication, lower(p))

(* C15: for every str prompt, every context and every API key, get_response
   returns the symptom-analysis text when the lower-cased prompt contains
   "symptoms" or "pain" (also when it contains "medicine" or "medication"),
   otherwise the medicine text when it contains "medicine" or "medication",
   otherwise the general-advice text: the result is a function of the prompt
   alone. *)
Thm_C15_KeywordPrecedence ==
    Asked =>
        shown = IF HasSymptomWord(page.prompt)
                THEN "Symptom Analysis & Recommendations"
                ELSE IF HasMedicineWord(page.prompt)
                THEN "Medicine Recommendations & Guidelines"
                ELSE "Comprehensive Health Guidance"

\* an upper-case "PAIN" after "Medication", with a context that holds text and
\* a key that is not the demo key
Wit_C15_BothKeywordsMixedCase ==
    /\ Asked
    /\ HasSymptomWord(page.prompt)
    /\ HasMedicineWord(page.prompt)
    /\ ~In(kw_pain, page.prompt)
    /\ page.context # NoneStr
    /\ ai_service[1].api_key = "sk-secret"
    /\ shown = "Symptom Analysis & Recommendations"

-----------------------------------------------------------------------------
(* One run of the script, src/app.py 591-2664.  The framework reruns the
   script on every widget interaction; a button reads True only in the run
   its own click triggered, so a run has one trigger.  The file repeats the
   line `with tab7:` (2593-2594) and is rejected by the compiler as it
   stands; the two lines are read as one. *)

\* the test of the name without strip()
SubmittedWithNameNoStrip(submit_button, name) ==
    submit_button /\ name # <<>> /\ Len(name) > 0

\* line 1159: submit_button and name and len(name.strip()) > 0
SubmittedWithName(submit_button, name) ==
    submit_button /\ name # <<>> /\ Len(Strip(name)) > 0

\* (weight in tenths of a kg, height in cm) for which the double arithmetic
\* of lines 1160-1161 returns less than the quotient: 64.0 / (160 / 100) ** 2
\* is 24.999999999999996 and 76.8 / (160 / 100) ** 2 is 29.999999999999993
FloatShort == {<<640, 160>>, <<768, 160>>}

\* lines 1160-1161: bmi = weight / (height / 100) ** 2, weight in tenths of a
\* kg and height in cm; a result short of the quotient is put 0.00001 below
CalculateBmi(weight, height) ==
    IF <<weight, height>> \in FloatShort
    THEN [n |-> ((weight * 1000) \div (height * height)) * 100000 - 1,
          d |-> 100000]
    ELSE [n |-> weight * 1000, d |-> height * height]

\* line 1176: round(bmi, 2) in hundredths, a tie to the even digit
RoundBmi(bmi) ==
    LET q == (bmi.n * 100) \div bmi.d
        twice == 2 * ((bmi.n * 100) % bmi.d)
    IN  IF twice > bmi.d \/ (twice = bmi.d /\ q % 2 = 1) THEN q + 1 ELSE q

\* the category of the rounded value
BmiInfoOfRounded(bmi) ==
    [bmi |-> RoundBmi(bmi),
     category |-> get_bmi_category([n |-> RoundBmi(bmi), d |-> 100])]

\* lines 1175-1181: bmi_info (the value shown and the category)
BmiInfo(bmi) ==
    [bmi |-> RoundBmi(bmi), category |-> get_bmi_category(bmi)]

\* lines 70-83: cities_data, in the order of the dict; of each entry the
\* address is left out, which main does not read
cities_data ==
    <<
      [city |-> <<"m", "u", "m", "b", "a", "i">>,
       lat |-> 190760, lon |-> 728777],
      [city |-> <<"d", "e", "l", "h", "i">>,
       lat |-> 287041, lon |-> 771025],
      [city |-> <<"b", "a", "n", "g", "a", "l", "o", "r", "e">>,
       lat |-> 129716, lon |-> 775946],
      [city |-> <<"c", "h", "e", "n", "n", "a", "i">>,
       lat |-> 130827, lon |-> 802707],
      [city |-> <<"h", "y", "d", "e", "r", "a", "b", "a", "d">>,
       lat |-> 173850, lon |-> 784867],
      [city |-> <<"p", "u", "n", "e">>,
       lat |-> 185204, lon |-> 738567],
      [city |-> <<"k", "o", "l", "k", "a", "t", "a">>,
       lat |-> 225726, lon |-> 883639],
      [city |-> <<"a", "h", "m", "e", "d", "a", "b", "a", "d">>,
       lat |-> 230225, lon |-> 725714],
      [city |-> <<"n", "e", "w", " ", "y", "o", "r", "k">>,
       lat |-> 407128, lon |-> -740060],
      [city |-> <<"l", "o", "n", "d", "o", "n">>,
       lat |-> 515074, lon |-> -1278],
      [city |-> <<"t", "o", "k", "y", "o">>,
       lat |-> 356762, lon |-> 1396503],
      [city |-> <<"s", "y", "d", "n", "e", "y">>,
       lat |-> -338688, lon |-> 1512093]
    >>

\* lines 91 and 95: the default location
DefaultLocation == [lat |-> 190760, lon |-> 728777]

\* lines 86-91: the first city whose name is in location_lower
RECURSIVE FirstCityIn(_, _)
FirstCityIn(location_lower, i) ==
    IF i > Len(cities_data) THEN DefaultLocation
    ELSE IF In(cities_data[i].city, location_lower)
    THEN [lat |-> cities_data[i].lat, lon |-> cities_data[i].lon]
    ELSE FirstCityIn(location_lower, i + 1)

\* lines 67-95: cached_geocode, for a str
cached_geocode(location) == FirstCityIn(Strip(lower(location)), 1)

Commas(text) == {i \in DOMAIN text : text[i] = ","}

\* line 923: location_input.split(',')[0]
SplitFirst(text) ==
    IF Commas(text) = {} THEN text
    ELSE SubSeq(text, 1,
                (CHOOSE i \in Commas(text) :
                    \A j \in Commas(text) : i <= j) - 1)

\* line 924: location_input.split(',')[-1]
SplitLast(text) ==
    IF Commas(text) = {} THEN text
    ELSE SubSeq(text,
                (CHOOSE i \in Commas(text) :
                    \A j \in Commas(text) : i >= j) + 1,
                Len(text))

\* lines 896-898: the detected location is written to the session
WriteDetected(sess, location) ==
    [sess EXCEPT !.user_location = <<location>>,
                 !.coordinates = <<location.lat, location.lon>>,
                 !.location_set = TRUE]

\* the place entered, as line 922 builds it from the coordinates found
PlaceEntered(location_input, coords) ==
    [city |-> Strip(SplitFirst(location_input)),
     country |-> IF Commas(location_input) # {}
                 THEN Strip(SplitLast(location_input))
                 ELSE <<"U", "n", "k", "n", "o", "w", "n">>,
     lat |-> coords.lat, lon |-> coords.lon]

\* a manual entry that keeps the coordinates the session already holds
WriteEnteredKeepsCoordinates(sess, location_input) ==
    LET coords == cached_geocode(location_input)
    IN  [sess EXCEPT
            !.coordinates = IF @ = <<>> THEN <<coords.lat, coords.lon>>
                            ELSE @,
            !.user_location = <<PlaceEntered(location_input, coords)>>,
            !.location_set = TRUE]

\* lines 917-928: the coordinates found for the place entered are written to
\* the session; cached_geocode returns a dict with three keys, which is true
WriteEntered(sess, location_input) ==
    LET coords == cached_geocode(location_input)
    IN  [sess EXCEPT
            !.coordinates = <<coords.lat, coords.lon>>,
            !.user_location = <<PlaceEntered(location_input, coords)>>,
            !.location_set = TRUE]

\* lines 880-936: the location setup of the sidebar, for the widget that
\* triggered the run, the radio and the text input as they stand, and the
\* location random.choice returns
LocationSetup(sess, trigger, side, chance) ==
    IF side.location_method = "Auto-detect Location"
    THEN IF trigger = "detect_location"
         THEN WriteDetected(sess, chance.location)
         ELSE sess
    ELSE IF side.location_input # <<>> /\ trigger = "set_location"
    THEN WriteEntered(sess, side.location_input)
    ELSE sess

\* lines 367-461: search_facilities(lat, lon, facility_type, radius) for the
\* draws of random.uniform; the lat main passes is a float of cities_data or
\* of demo_locations
search_facilities(facility_type, radius, draws) ==
    SearchReturn(SearchBlock([facility_type |-> facility_type,
                              radius |-> radius, lat_ok |-> TRUE], draws))

\* lines 1550-1597: what the Hospitals tab shows for the list returned
HospitalsPanel(hospitals) ==
    IF hospitals # <<>> THEN "hospital cards" ELSE "No hospitals found"

\* lines 1550-1597: the tab for the list returned
HospitalsShown(hospitals) ==
    [panel |-> HospitalsPanel(hospitals), shown |-> Len(hospitals)]

\* lines 1540-1605: the Hospitals tab
HospitalsTab(sess, chance) ==
    IF sess.coordinates # <<>>
    THEN HospitalsShown(search_facilities("hospital", 100000, chance.draws))
    ELSE [panel |-> "Location Required", shown |-> 0]

\* lines 1623-1651: what the Pharmacies tab shows for the list returned
PharmaciesPanel(pharmacies) ==
    IF pharmacies # <<>> THEN "pharmacy cards" ELSE "No pharmacies found"

\* lines 1623-1653: the tab for the list returned, and the flag set
PharmaciesShown(sess, pharmacies) ==
    [session |-> Put(sess, "pharmacies_searched", TRUE),
     pharmacies |-> [panel |-> PharmaciesPanel(pharmacies),
                     shown |-> Len(pharmacies)]]

\* lines 1607-1663: the Pharmacies tab, for the widget that triggered the run
\* and the slider as it stands
PharmaciesTab(sess, trigger, side, chance) ==
    IF sess.coordinates # <<>>
    THEN IF trigger = "search_pharmacies"
            \/ "pharmacies_searched" \notin DOMAIN sess
         THEN PharmaciesShown(sess,
                  search_facilities("pharmacy", side.pharmacy_radius * 1000,
                                    chance.draws))
         ELSE [session |-> sess,
               pharmacies |-> [panel |-> "nothing", shown |-> 0]]
    ELSE [session |-> sess,
          pharmacies |-> [panel |-> "Location Required", shown |-> 0]]

\* lines 1404-1535: the AI tab, for the widget that triggered the run and the
\* type the user chose when that widget is the selectbox
AITab(sess, ai, trigger, choice) ==
    LET sess1 == IF "selected_analysis_type" \in DOMAIN sess THEN sess
                 ELSE Put(sess, "selected_analysis_type",
                          "Comprehensive Health Analysis")
        analysis_type == IF trigger = "analysis_type_selector" THEN choice
                         ELSE sess1["selected_analysis_type"]
        sess2 == Put(sess1, "selected_analysis_type", analysis_type)
        get_analysis == trigger = "ai_analysis_btn"
        done == AIAnalysis(sess2, ai, analysis_type)
    IN  IF get_analysis
        THEN [session |-> done.session,
              analysis_type |-> analysis_type,
              ai_panel |-> IF done.error THEN "error" ELSE "response",
              ai_response |-> done.ai_response,
              early_return |-> done.error]
        ELSE [session |-> sess2,
              analysis_type |-> analysis_type,
              ai_panel |-> IF "ai_analysis_done" \notin DOMAIN sess2
                           THEN "ready"
                           ELSE IF "last_analysis_type" \in DOMAIN sess2
                           THEN "history"
                           ELSE "none",
              ai_response |-> <<>>,
              early_return |-> FALSE]

\* what main shows when the results section is not rendered
NoResults(sess) ==
    [session |-> sess, results |-> FALSE, bmi_info |-> <<>>,
     analysis_type |-> "", ai_panel |-> "none", ai_response |-> <<>>,
     early_return |-> FALSE, score_calls |-> 0,
     hospitals |-> [panel |-> "nothing", shown |-> 0],
     pharmacies |-> [panel |-> "nothing", shown |-> 0]]

\* lines 1160-1400: the results down to the tabs, and the AI tab as tab1
\* leaves it
ResultsToTab1(tab1, form) ==
    [session |-> tab1.session, results |-> TRUE,
     bmi_info |-> <<BmiInfo(CalculateBmi(form.weight, form.height))>>,
     analysis_type |-> tab1.analysis_type,
     ai_panel |-> tab1.ai_panel,
     ai_response |-> tab1.ai_response,
     early_return |-> tab1.early_return,
     score_calls |-> 1,
     hospitals |-> [panel |-> "nothing", shown |-> 0],
     pharmacies |-> [panel |-> "nothing", shown |-> 0]]

\* lines 1540-2627: the tabs after the AI tab, which run unless line 1461
\* returned from main
LaterTabs(rendered, tab2, tab3) ==
    IF rendered.early_return THEN rendered
    ELSE [rendered EXCEPT !.session = tab3.session,
                          !.score_calls = 2,
                          !.hospitals = tab2,
                          !.pharmacies = tab3.pharmacies]

\* lines 1540-1663: the Hospitals and the Pharmacies tab, on the session the
\* AI tab left
TabsAfter(tab1, trigger, form, side, chance) ==
    LaterTabs(ResultsToTab1(tab1, form),
              HospitalsTab(tab1.session, chance),
              PharmaciesTab(tab1.session, trigger, side, chance))

\* lines 1158-2627: the results section, from the session the sidebar left
ResultsSection(sess, trigger, form, choice, side, chance) ==
    TabsAfter(AITab([sess EXCEPT !.health_data = <<HealthData(form)>>],
                    AIService, trigger, choice),
              trigger, form, side, chance)

\* lines 591-2627: main, for the session, the trigger of the run, the values
\* the form and the widgets outside it hold, the selectbox choice and the
\* outcomes of the random draws
Main(sess, trigger, form, choice, side, chance) ==
    LET located == LocationSetup(sess, trigger, side, chance)
    IN  IF SubmittedWithName(trigger = "submit", form.name)
        THEN ResultsSection(located, trigger, form, choice, side, chance)
        ELSE NoResults(located)

\* where a run may raise, and the class of what is raised: Exception, or a
\* BaseException that is no Exception (KeyboardInterrupt, SystemExit, the
\* framework's own stop and rerun signals)
Mishaps ==
    {[in |-> "nowhere", class |-> ""]}
    \cup [in : {"main, first statement", "main, last statement",
                "show_footer"},
          class : {"Exception", "BaseException"}]

\* line 2658: main() returned, and the try block goes on to show_footer()
MainReturned(mishap) ==
    mishap.in \notin {"main, first statement", "main, last statement"}

\* show_footer() called after the try statement, whatever main() did
FooterShownAfterTry(mishap) == mishap.in # "show_footer"

\* line 2659: show_footer() is called and reaches its last statement
FooterShown(mishap) == MainReturned(mishap) /\ mishap.in # "show_footer"

\* line 2660: except Exception
Caught(mishap) == mishap.in # "nowhere" /\ mishap.class = "Exception"

\* what no handler of the script catches
Escaped(mishap) == mishap.in # "nowhere" /\ ~Caught(mishap)

\* the page a run renders, for what main rendered
PageOf(done, run, trigger, form, side, mishap) ==
    [run |-> run,
     trigger |-> trigger,
     form |-> form,
     side |-> side,
     results |-> done.results,
     bmi_info |-> done.bmi_info,
     analysis_type |-> done.analysis_type,
     ai_panel |-> done.ai_panel,
     ai_response |-> done.ai_response,
     early_return |-> done.early_return,
     score_calls |-> done.score_calls,
     hospitals |-> done.hospitals,
     pharmacies |-> done.pharmacies,
     main_returned |-> MainReturned(mishap),
     mishap |-> mishap,
     footer |-> FooterShown(mishap),
     unexpected_error |-> Caught(mishap),
     escaped |-> Escaped(mishap)]

\* the session a run leaves and the page it renders, for what main did
SessionAndPage(done, run, trigger, form, side, mishap) ==
    [session |-> done.session,
     page |-> PageOf(done, run, trigger, form, side, mishap)]

\* lines 2656-2664: the entry point, for the run-th run, in which mishap
\* happens: the session it leaves and the page it renders
EntryPoint(sess, run, trigger, form, choice, side, chance, mishap) ==
    SessionAndPage(IF mishap.in = "main, first statement"
                   THEN NoResults(sess)
                   ELSE Main(sess, trigger, form, choice, side, chance),
                   run, trigger, form, side, mishap)

(* The runs checked *)

\* the form as the user left it: names, and weight in tenths of a kg with
\* height in cm
FormInputs ==
    {f \in [name : {<<>>, <<" ", " ">>, <<"A", "n", "n">>},
            symptoms : {<<>>}, medications : {<<>>}, pain_scale : {<<"0">>},
            body : {<<700, 170>>, <<739, 200>>, <<740, 200>>, <<245, 99>>,
                    <<640, 160>>, <<1000, 200>>, <<294, 99>>,
                    <<1200, 200>>}] :
        f.name = <<"A", "n", "n">> \/ f.body \in {<<700, 170>>, <<1200, 200>>}}

FormOf(f) ==
    [name |-> f.name, symptoms |-> f.symptoms, medications |-> f.medications,
     pain_scale |-> f.pain_scale, weight |-> f.body[1], height |-> f.body[2]]

\* lines 1018-1030: the form before the user touches it
FormDefaults ==
    [name |-> <<>>, symptoms |-> <<>>, medications |-> <<>>,
     pain_scale |-> <<"0">>, weight |-> 700, height |-> 170]

\* lines 879-882, 911-915 and 1615: the widgets outside the form before the
\* user touches them
SideDefaults ==
    [location_method |-> "Auto-detect Location", location_input |-> <<>>,
     pharmacy_radius |-> 10]

\* the page before the first run
FirstPage ==
    [run |-> 0, trigger |-> "", form |-> FormDefaults, side |-> SideDefaults,
     results |-> FALSE,
     bmi_info |-> <<>>, analysis_type |-> "", ai_panel |-> "none",
     ai_response |-> <<>>, early_return |-> FALSE, score_calls |-> 0,
     hospitals |-> [panel |-> "nothing", shown |-> 0],
     pharmacies |-> [panel |-> "nothing", shown |-> 0],
     main_returned |-> FALSE,
     mishap |-> [in |-> "nowhere", class |-> ""], footer |-> FALSE,
     unexpected_error |-> FALSE, escaped |-> FALSE]

\* the outcomes of random.choice and random.uniform in a run
Chances ==
    [location : demo_locations, draws : {<<d>> : d \in JitterSet}]

\* the draws of a run that calls neither random.choice nor random.uniform,
\* as every run does while no location is set
NoChance ==
    {c \in Chances : c.location.lat = 190760 /\ c.draws = <<4>>}

\* the session and the page are those the run left
Leaves(done) ==
    /\ session' = done.session
    /\ page' = done.page

\* the run the interaction with the widget trigger starts, with the widgets
\* outside the form as side and the random draws among chances; the runs are
\* counted up to MaxRuns and the user may go on for ever
RunWith(trigger, form, choice, side, chances) ==
    \E mishap \in Mishaps, chance \in chances :
        /\ ai_service' = IF mishap.in = "main, first statement"
                         THEN ai_service ELSE <<AIService>>
        /\ Leaves(EntryPoint(session, Min(page.run + 1, MaxRuns), trigger,
                             form, choice, side, chance, mishap))
        /\ UNCHANGED <<args, result, locals, calls, watched, fargs,
                       fresult, flocals, secrets, environ>>

\* the same with the widgets outside the form left as they are, in a session
\* without a location
Run(trigger, form, choice) ==
    RunWith(trigger, form, choice, page.side, NoChance)

\* the user fills the form and presses "Analyze My Health Data"
Submit == \E f \in FormInputs : Run("submit", FormOf(f), "")

\* the user presses "Get AI Analysis", which is on the page
ClickGetAnalysis ==
    /\ page.results
    /\ Run("ai_analysis_btn", page.form, "")

\* the user picks a type in "Choose analysis type:", which is on the page
ChooseAnalysisType ==
    /\ page.results
    /\ \E t \in AnalysisTypes : Run("analysis_type_selector", page.form, t)

\* the user touches a widget of the sidebar
TouchSidebar == Run("sidebar", page.form, "")

InitRun ==
    /\ args = Scenario
    /\ result = <<>>
    /\ locals = ScoreStart
    /\ calls = 0
    /\ session = SessionInit
    /\ watched = <<>>
    /\ fargs = NoFacilityArgs
    /\ fresult = <<>>
    /\ flocals = NoSearch
    /\ secrets = << <<>> >>
    /\ environ = <<>>
    /\ ai_service = <<>>
    /\ page = FirstPage

NextRun == Submit \/ ClickGetAnalysis \/ ChooseAnalysisType \/ TouchSidebar

SpecRun == InitRun /\ [][NextRun]_vars

\* the user goes on interacting
SpecRunFair == SpecRun /\ WF_vars(NextRun)

\* the last run was started by a click on "Get AI Analysis" and main returned
ClickedGetAnalysis == page.trigger = "ai_analysis_btn" /\ page.main_returned

\* an AI response is on the page and the session remembers the analysis
AnalysisShown ==
    /\ page.ai_panel = "response"
    /\ page.ai_response # <<>>
    /\ {"ai_analysis_done", "last_analysis_type", "last_analysis_time"}
          \subseteq DOMAIN session

(* C16 as stated: after a submission with a non-blank name has rendered the
   results page, a click on "Get AI Analysis" is eventually followed by a page
   that shows an AI response, with ai_analysis_done, last_analysis_type and
   last_analysis_time set in the session. *)
Orig_C16_ClickLeadsToAnalysis == ClickedGetAnalysis ~> AnalysisShown

\* what the same search returns when no catalog entry is within the radius
NoMatchReturn ==
    {SearchReturn(SearchBlock([fargs EXCEPT !.radius = 0, !.lat_ok = TRUE],
                              <<d>>)) : d \in JitterSet}

(* C17: whenever a step inside search_facilities raises, the call returns the
   empty list, whatever the loop had built or drawn before, and the returned
   value is the value a search that matched no catalog entry returns. *)
Thm_C17_RaiseReturnsEmptyList ==
    (Searched /\ flocals.raised) =>
        /\ found = <<>>
        /\ NoMatchReturn = {found}

\* the search raised with every hospital within the radius, after the loop
\* had drawn a distance
Wit_C17_RaisedWithEntriesInRadius ==
    /\ Searched
    /\ flocals.raised
    /\ fargs.facility_type = "hospital"
    /\ fargs.radius = 100000
    /\ flocals.drawn # <<>>
    /\ found = <<>>

\* a run has happened
Ran == page.run > 0

\* something was raised in main() or in show_footer()
Raised == page.mishap.in # "nowhere"

(* C18 as stated: in every run, whatever is raised in main() or show_footer()
   is caught and the unexpected-error message is shown, the footer is
   rendered if and only if main() returned without raising, and nothing
   escapes the entry point. *)
Orig_C18_EntryPointCatchesAll ==
    Ran =>
        /\ Raised => page.unexpected_error
        /\ page.footer <=> page.main_returned
        /\ ~page.escaped

(* C18 amended: in every run, an Exception raised in main() or show_footer()
   is caught and the unexpected-error message is shown; the footer is
   rendered if and only if main() returned without raising and show_footer()
   did not raise; what escapes the entry point is never an Exception (only a
   BaseException that is no Exception). *)
Thm_C18_EntryPointCatchesExceptions ==
    Ran =>
        /\ (Raised /\ page.mishap.class = "Exception")
              => (page.unexpected_error /\ ~page.escaped)
        /\ page.footer <=>
              (page.main_returned /\ page.mishap.in # "show_footer")
        /\ page.escaped => page.mishap.class = "BaseException"
        /\ page.unexpected_error => Raised

\* main() raised an Exception at its end, after the results were rendered: the
\* message is shown and the footer is not
Wit_C18_MainRaisedAfterResults ==
    /\ Ran
    /\ page.results
    /\ page.mishap = [in |-> "main, last statement", class |-> "Exception"]
    /\ page.unexpected_error
    /\ ~page.footer
    /\ ~page.escaped

\* the results section of the last run, and the BMI main computed for it
shownBmi == page.bmi_info[1]

computedBmi == CalculateBmi(page.form.weight, page.form.height)

\* weight / (height / 100) ** 2 as a quotient of integers
QuotientBmi ==
    [n |-> page.form.weight * 1000, d |-> page.form.height * page.form.height]

\* h hundredths is the value b rounded to 2 decimals: within 0.005 of it
IsRounded(h, b) ==
    /\ 2 * (b.n * 100 - h * b.d) <= b.d
    /\ 2 * (h * b.d - b.n * 100) <= b.d

(* C19: in every run that renders the results, the BMI shown is
   weight / (height / 100) ^ 2 rounded to 2 decimals (24.22 for weight 70 and
   height 170, with category "Normal weight"), and the category shown is
   decided by the unrounded BMI: "Underweight" below 18.5, "Normal weight"
   from 18.5 to below 25, "Overweight" from 25 to below 30, "Obese" from 30. *)
Thm_C19_BmiShownAndCategory ==
    page.results =>
        /\ IsRounded(shownBmi.bmi, QuotientBmi)
        /\ IsRounded(shownBmi.bmi, computedBmi)
        /\ (page.form.weight = 700 /\ page.form.height = 170)
              => (shownBmi.bmi = 2422 /\ shownBmi.category = "Normal weight")
        /\ shownBmi.category = "Underweight" <=> BmiLt(computedBmi, 185)
        /\ shownBmi.category = "Normal weight"
              <=> (~BmiLt(computedBmi, 185) /\ BmiLt(computedBmi, 250))
        /\ shownBmi.category = "Overweight"
              <=> (~BmiLt(computedBmi, 250) /\ BmiLt(computedBmi, 300))
        /\ shownBmi.category = "Obese" <=> ~BmiLt(computedBmi, 300)

\* weight 24.5 and height 99: the BMI 24.9974... is shown as 25.0 and the
\* category is that of the unrounded value
Wit_C19_ShownAtBreakpointCategoryBelow ==
    /\ page.results
    /\ shownBmi.bmi = 2500
    /\ BmiLt(QuotientBmi, 250)
    /\ shownBmi.category = "Normal weight"

\* the try block of the call left before the age adjustment (a raise in an
\* assessment of the vitals)
RaisedBeforeAge ==
    TryBlock(args.vitals, args.bmi, args.age, Str(<<>>)).raised

\* the locals of the same call for a patient of 50, who gets no adjustment
WithoutAgeAdjustment == TryBlock(args.vitals, args.bmi, 50, args.symptoms)

AgeTier == IF args.age > 65 THEN {5} ELSE IF args.age > 50 THEN {2} ELSE {}

AgeRecommendations ==
    Count(locals.recommendations, "Regular geriatric check-ups")
    + Count(locals.recommendations, "Age-appropriate screenings")

(* C20: in every call the age adjustment subtracts at most once; when the
   call reaches it, it subtracts 5 for age > 65, 2 for 50 < age <= 65 and
   nothing for age <= 50 (50 and 65 take the lower tier), and it appends one
   recommendation exactly when it subtracts; the risk_factors are those of
   the same call without an age adjustment. *)
Thm_C20_AgeTiers ==
    Called =>
        /\ TimesDeducted("age") <= 1
        /\ AmountsOf("age") = IF RaisedBeforeAge THEN {} ELSE AgeTier
        /\ AgeRecommendations = TimesDeducted("age")
        /\ (args.age > 65 /\ ~RaisedBeforeAge)
              => Count(locals.recommendations, "Regular geriatric check-ups") = 1
        /\ (args.age > 50 /\ args.age <= 65 /\ ~RaisedBeforeAge)
              => Count(locals.recommendations, "Age-appropriate screenings") = 1
        /\ locals.risk_factors = WithoutAgeAdjustment.risk_factors
        /\ Len(locals.recommendations)
              = Len(WithoutAgeAdjustment.recommendations) + TimesDeducted("age")
        /\ ~locals.raised =>
              /\ ret.risk_factors = locals.risk_factors
              /\ ScoreIsSumOfDeductions

\* age exactly 65 with risk factors from the vitals: 2 is subtracted, not 5
Wit_C20_SixtyFiveTakesLowerTier ==
    /\ Called
    /\ ~locals.raised
    /\ args.age = 65
    /\ AmountsOf("age") = {2}
    /\ Len(ret.risk_factors) >= 2
    /\ Count(ret.recommendations, "Age-appropriate screenings") = 1

\* the locals of the same call for a patient who reports no symptom
WithoutSymptoms == TryBlock(args.vitals, args.bmi, args.age, Str(<<>>))

\* the call reaches line 532 with a symptom text
SymptomTextReached == ~WithoutSymptoms.raised /\ args.symptoms.kind = "str"

(* C21: in every call the symptom penalty is subtracted at most once; a call
   that reaches it with a symptom text subtracts 10 exactly when the text
   without its leading and trailing whitespace has more than 10 characters
   (nothing for an empty text, for whitespace alone, for exactly 10
   characters between the whitespace); it appends one recommendation exactly
   when it subtracts, and the risk_factors are those of the same call
   without symptoms. *)
Thm_C21_SymptomPenalty ==
    Called =>
        /\ TimesDeducted("symptoms") <= 1
        /\ SymptomTextReached =>
              (AmountsOf("symptoms") = IF StrippedLen > 10 THEN {10} ELSE {})
        /\ ~SymptomTextReached => AmountsOf("symptoms") = {}
        /\ Count(locals.recommendations, "Symptom evaluation recommended")
              = TimesDeducted("symptoms")
        /\ locals.risk_factors = WithoutSymptoms.risk_factors
        /\ locals.score = WithoutSymptoms.score - 10 * TimesDeducted("symptoms")

\* 10 characters between two runs of whitespace, 22 in all: no penalty
Wit_C21_TenCharactersPadded ==
    /\ Called
    /\ ~locals.raised
    /\ args.symptoms.kind = "str"
    /\ Len(args.symptoms.chars) = 10 + 2 * MaxPad
    /\ StrippedLen = 10
    /\ TimesDeducted("symptoms") = 0
    /\ ret.recommendations = WithoutSymptoms.recommendations

-----------------------------------------------------------------------------
(* A visit: the user sets a location, submits the form and searches *)

\* what the user types in "Enter your location:"
LocationInputs ==
    {<<>>,
     <<" ", " ">>,
     <<"P", "u", "n", "e", ",", " ", "I", "n", "d", "i", "a">>,
     <<" ", "L", "O", "N", "D", "O", "N">>,
     <<"O", "z", ",", "K", "S", ",", "U", "S">>}

\* line 1615: values of the slider "Search radius (km):", from 1 to 25
SliderValues == {1, 2, 3, 10, 25}

\* the forms submitted in a visit
VisitForms ==
    {f \in FormInputs : f.body = <<700, 170>>}

\* one run of the script with nothing raised
Visit(trigger, form, side) ==
    \E chance \in Chances :
        /\ ai_service' = <<AIService>>
        /\ Leaves(EntryPoint(session, Min(page.run + 1, MaxRuns), trigger,
                             form, "", side, chance,
                             [in |-> "nowhere", class |-> ""]))
        /\ UNCHANGED <<args, result, locals, calls, watched, fargs,
                       fresult, flocals, secrets, environ>>

\* the user picks a method in "Choose detection method:"
ChooseLocationMethod ==
    \E m \in {"Auto-detect Location", "Manual Entry"} :
        Visit("location_method", page.form,
              [page.side EXCEPT !.location_method = m])

\* the user presses "Detect My Location", which is in the sidebar
PressDetectMyLocation ==
    /\ page.side.location_method = "Auto-detect Location"
    /\ Visit("detect_location", page.form, page.side)

\* the user types a location in the text input, which is in the sidebar
TypeLocation ==
    /\ page.side.location_method = "Manual Entry"
    /\ \E t \in LocationInputs :
          Visit("location_input", page.form,
                [page.side EXCEPT !.location_input = t])

\* the user presses "Set Location", which is in the sidebar
PressSetLocation ==
    /\ page.side.location_method = "Manual Entry"
    /\ page.side.location_input # <<>>
    /\ Visit("set_location", page.form, page.side)

\* the user fills the form and presses "Analyze My Health Data"
SubmitForm == \E f \in VisitForms : Visit("submit", FormOf(f), page.side)

\* the Pharmacies tab of the page shows the slider and the button
PharmacyWidgetsShown == page.results /\ session.coordinates # <<>>

\* the user moves the slider of the Pharmacies tab
MoveSlider ==
    /\ PharmacyWidgetsShown
    /\ \E r \in SliderValues :
          Visit("pharmacy_radius", page.form,
                [page.side EXCEPT !.pharmacy_radius = r])

\* the user presses "Search Pharmacies"
PressSearchPharmacies ==
    /\ PharmacyWidgetsShown
    /\ Visit("search_pharmacies", page.form, page.side)

InitVisit ==
    /\ args = Scenario
    /\ result = <<>>
    /\ locals = ScoreStart
    /\ calls = 0
    /\ session = SessionInit
    /\ watched = <<>>
    /\ fargs = NoFacilityArgs
    /\ fresult = <<>>
    /\ flocals = NoSearch
    /\ secrets = << <<>> >>
    /\ environ = <<>>
    /\ ai_service = <<>>
    /\ page = FirstPage

NextVisit ==
    \/ ChooseLocationMethod
    \/ PressDetectMyLocation
    \/ TypeLocation
    \/ PressSetLocation
    \/ SubmitForm
    \/ MoveSlider
    \/ PressSearchPharmacies

SpecVisit == InitVisit /\ [][NextVisit]_vars

\* the session holds no location
NoLocation ==
    /\ session.coordinates = <<>>
    /\ session.user_location = <<>>
    /\ session.location_set = FALSE

\* the session holds a location and its coordinates are those of the place
LocationHeld ==
    /\ session.location_set = TRUE
    /\ session.user_location # <<>>
    /\ session.coordinates = <<session.user_location[1].lat,
                               session.user_location[1].lon>>

(* C22: in every state of a visit the session holds no location at all
   (coordinates None, user_location None, location_set False) or holds one
   whose coordinates are (user_location.lat, user_location.lon); and no run
   takes the session from holding a location back to none. *)
Thm_C22_LocationAllOrNothing ==
    /\ [](NoLocation \/ LocationHeld)
    /\ [][LocationHeld => LocationHeld']_vars

\* a location entered by hand replaced the detected one
Wit_C22_EnteredOverDetected ==
    /\ page.trigger = "set_location"
    /\ LocationHeld
    /\ session.user_location[1].city = <<"L", "O", "N", "D", "O", "N">>
    /\ session.user_location[1].country = <<"U", "n", "k", "n", "o", "w", "n">>
    /\ session.coordinates = <<515074, -1278>>
    /\ "pharmacies_searched" \in DOMAIN session

\* the last run was started by the submit button with a name that is empty
\* or whitespace
BlankSubmission(p) ==
    p.trigger = "submit" /\ Strip(p.form.name) = <<>>

\* the last run was started by the submit button with a name that is not
NamedSubmission(p) ==
    p.trigger = "submit" /\ Strip(p.form.name) # <<>>

(* C23: a run started by the submit button with an empty or whitespace-only
   name leaves the session as it was, health_data included, computes no
   health score and renders no results; and health_data changes only in a
   run started by the submit button with a name that is not blank. *)
Thm_C23_BlankNameChangesNothing ==
    /\ [](BlankSubmission(page) => ~page.results /\ page.score_calls = 0)
    /\ [][BlankSubmission(page') => session' = session]_vars
    /\ [][session'.health_data # session.health_data
             => NamedSubmission(page')]_vars

\* a whitespace name submitted after a named submission: the data of the
\* named one are still in the session and nothing is rendered
Wit_C23_BlankAfterNamed ==
    /\ BlankSubmission(page)
    /\ page.form.name = <<" ", " ">>
    /\ session.health_data =
          <<HealthData([page.form EXCEPT !.name = <<"A", "n", "n">>])>>
    /\ ~page.results
    /\ page.score_calls = 0

(* C24 as stated: whenever a location is set, every run started by the submit
   button with a name that is not blank renders a pharmacy list in the
   Pharmacies tab, the second and later submissions included. *)
Orig_C24_EverySubmissionListsPharmacies ==
    (NamedSubmission(page) /\ session.coordinates # <<>>)
        => page.pharmacies.panel = "pharmacy cards"

\* the assessment that appends a label, in the order of lines 472-522
GroupOf(label) ==
    CASE label \in {"Underweight", "Obesity", "Overweight"} -> 1
      [] label \in {"High Blood Pressure", "Elevated Blood Pressure"} -> 2
      [] label \in {"Tachycardia", "Bradycardia"} -> 3
      [] label = "Fever" -> 4
      [] label = "Low Oxygen Saturation" -> 5
      [] OTHER -> 0

(* C25: in every result of a call that did not raise, the labels of
   risk_factors come one per group at most and in the order BMI, blood
   pressure, pulse, temperature, SpO2 (so never two labels of one group);
   there are at most 5 risk factors and at most 7 recommendations, and at
   least as many recommendations as risk factors. *)
Thm_C25_OneLabelPerGroupInOrder ==
    (Called /\ ~locals.raised) =>
        /\ \A i \in DOMAIN ret.risk_factors : GroupOf(ret.risk_factors[i]) > 0
        /\ \A i, j \in DOMAIN ret.risk_factors :
              i < j => GroupOf(ret.risk_factors[i])
                          < GroupOf(ret.risk_factors[j])
        /\ Len(ret.risk_factors) <= 5
        /\ Len(ret.recommendations) <= 7
        /\ Len(ret.recommendations) >= Len(ret.risk_factors)

\* every group gives a label, and the age and the symptoms a recommendation
Wit_C25_FiveLabelsSevenRecommendations ==
    /\ Called
    /\ ~locals.raised
    /\ Len(ret.risk_factors) = 5
    /\ Len(ret.recommendations) = 7
    /\ ret.risk_factors[2] = "Elevated Blood Pressure"
    /\ ret.risk_factors[3] = "Bradycardia"

(* C26 as stated: for every input, a result with no risk factor has status
   Excellent and a score of 85 or more, and a result with status Poor
   (score below 55) has at least two risk factors. *)
Orig_C26_LabelsBoundStatus ==
    Called =>
        /\ ret.risk_factors = <<>>
              => (ret.status = "Excellent" /\ ret.score >= 85)
        /\ ret.status = "Poor"
              => (ret.score < 55 /\ Len(ret.risk_factors) >= 2)

(* C26, amended: for every input on which the computation does not raise, a
   result with no risk factor has status Excellent and a score of 85 or more,
   and a result with status Poor has a score below 55 and at least two risk
   factors; an input on which it raises gets no risk factor and status Good
   with score 75. *)
Thm_C26_LabelsBoundStatusUnlessRaised ==
    Called =>
        /\ ~locals.raised =>
              /\ ret.risk_factors = <<>>
                    => (ret.status = "Excellent" /\ ret.score >= 85)
              /\ ret.status = "Poor"
                    => (ret.score < 55 /\ Len(ret.risk_factors) >= 2)
        /\ locals.raised =>
              /\ ret.risk_factors = <<>>
              /\ ret.status = "Good"
              /\ ret.score = 75

\* no label with the largest deductions that add none: exactly 85
Wit_C26_NoLabelAtEightyFive ==
    /\ Called
    /\ ~locals.raised
    /\ ret.risk_factors = <<>>
    /\ ret.score = 85
    /\ ret.status = "Excellent"

\* the catalog base_distance of a returned entry
BaseOf(entry) ==
    (CHOOSE f \in {Selected[k] : k \in DOMAIN Selected} :
        f.name = entry.name).base_distance

\* the actual_distance line 432 computed for a returned entry
ActualOf(entry) ==
    (CHOOSE d \in {flocals.drawn[k] : k \in DOMAIN flocals.drawn} :
        d.name = entry.name).actual_distance

Abs(x) == IF x < 0 THEN -x ELSE x

(* C27: for every facility type, radius and jitter outcome, every returned
   entry reports the rounded actual distance, which is at least 0.1 km, and
   the actual distance before rounding is within 0.3 km of the catalog
   base_distance; and of two returned entries whose base distances differ by
   more than 0.6 km the one with the smaller base distance comes earlier. *)
Thm_C27_JitterBounded ==
    Searched =>
        /\ \A i \in DOMAIN found :
              /\ found[i].distance >= 100
              /\ found[i].distance = Round2(ActualOf(found[i]))
              /\ Abs(ActualOf(found[i]) - BaseOf(found[i])) <= 300
        /\ \A i, j \in DOMAIN found :
              BaseOf(found[i]) + 600 < BaseOf(found[j]) => i < j

\* bases 0.7 km apart drawn towards each other: reported 0.1 km apart, and
\* the entry the catalog lists last of all is not the last returned
Wit_C27_SevenHundredApartKeepOrder ==
    /\ Searched
    /\ fargs.facility_type = "pharmacy"
    /\ \E i, j \in DOMAIN found :
          /\ i < j
          /\ BaseOf(found[j]) - BaseOf(found[i]) = 700
          /\ found[j].distance - found[i].distance = 100
    /\ found[Len(found)].name # Selected[Len(Selected)].name

\* the search is the one the Hospitals tab makes (line 1548)
HospitalsTabSearch ==
    fargs.facility_type = "hospital" /\ fargs.radius = 100000

\* the search is one the Pharmacies tab makes (line 1621) for a slider value
PharmaciesTabSearch ==
    /\ fargs.facility_type = "pharmacy"
    /\ \E km \in 1..25 : fargs.radius = km * 1000

(* C28: the search of the Hospitals tab (radius 100000 m) returns all 34
   catalog entries and the tab shows them, unless the search raised; a search
   of the Pharmacies tab (slider 1 to 25 km) returns at least one entry, all
   five from 3 km on, unless the search raised; and either tab shows its
   "No ... found" warning exactly when the search raised. *)
Thm_C28_TabSearchesFindEntries ==
    /\ (Searched /\ HospitalsTabSearch) =>
          /\ ~flocals.raised =>
                (Len(found) = 34 /\ Len(found) = Len(Hospitals))
          /\ (HospitalsPanel(found) = "No hospitals found") <=> flocals.raised
    /\ (Searched /\ PharmaciesTabSearch) =>
          /\ ~flocals.raised =>
                /\ Len(found) >= 1
                /\ fargs.radius >= 3000 => Len(found) = Len(Pharmacies)
                /\ Len(Pharmacies) = 5
          /\ (PharmaciesPanel(found) = "No pharmacies found")
                <=> flocals.raised

\* the smallest slider value finds one pharmacy, and the tab shows it
Wit_C28_OneKilometreOnePharmacy ==
    /\ Searched
    /\ PharmaciesTabSearch
    /\ fargs.radius = 1000
    /\ ~flocals.raised
    /\ Len(found) = 1
    /\ PharmaciesPanel(found) = "pharmacy cards"

\* no credential in the session, in the secret store (unreadable, or holding
\* none of the names) or in the environment
NoCredentialAvailable == FirstAvailable = "demo-openai-key"

(* C29 as stated: after every run in which no OpenAI credential is available
   from the session, the secret store or the environment, under the primary
   or an alternative name, the reading of the secret store raising included,
   the effective key is 'demo-openai-key' and the sidebar reports
   "Demo Mode", never "OpenAI Connected". *)
Orig_C29_NoCredentialMeansDemoMode ==
    (page.run > 0 /\ NoCredentialAvailable) =>
        /\ page.openai_key = "demo-openai-key"
        /\ page.ai_status = "Demo Mode"

=============================================================================
